---- MODULE Spec2Model ----
(***************************************************************************)
(* Bot-likelihood scoring engine of UnwrapHackathon.                       *)
(*                                                                         *)
(*   src/bot_detection/enhanced_bot_detector.py   features, 0-100 score,   *)
(*                                                classifier, batch run    *)
(*   src/bot_detection/subreddit_bot_scanner.py   batch run over the users *)
(*                                                of a subreddit           *)
(*   src/bot_detection/botDetector.py             the 0-1 draft            *)
(*                                                                         *)
(* Numbers.  Python floats are modelled in fixed point: a value v is the   *)
(* integer floor(v * SCALE), six decimals.  Scores reported with           *)
(* round(v, 2) are integers in hundredths.  Texts and usernames are        *)
(* sequences of one-character strings.                                     *)
(***************************************************************************)
EXTENDS Integers, Sequences, FiniteSets, TLC

(***************************************************************************)
(* Fixed-point arithmetic                                                  *)
(***************************************************************************)
\* round(x, 2) keeps two decimals: one hundred hundredths to the unit.
Cent == 100

\* the fixed-point unit: six decimals, the size of the 1e-6 the code adds to
\* its divisors
SCALE == Cent * 10000

\* the unit of avg_karma_per_post, a quotient that is not confined to [0, 1]:
\* four decimals
KarmaUnit == Cent * 100

\* a quotient by (0 + 1e-6) is at least a million: it is held at Sat, far
\* above every threshold the code compares it with (1.0 and 0.05)
Sat == 1000 * SCALE

Min(a, b) == IF a <= b THEN a ELSE b

Max(a, b) == IF a >= b THEN a ELSE b

\* floor(n / d) for d > 0 and any integer n
FloorDiv(n, d) == n \div d

\* floor(SCALE * a / (b + 1e-6)), a >= 0 an item count, b an integer.
\*   b = 0: a * 10^6 * SCALE, held at Sat (0 when a = 0).
\*   b > 0: with a * SCALE = q * b + r the value is q + (r - x) / b, where
\*          x = a / (b + 1e-6) lies just below a / b.
\*   b < 0: the value is -(q + (r + x) / B) with B = -b, a * SCALE = q * B + r
\*          and x = a / (B - 1e-6) just above a / B.
DivEps(a, b) ==
  IF b = 0 THEN (IF a = 0 THEN 0 ELSE Sat)
  ELSE IF a = 0 THEN 0
  ELSE IF b > 0
       THEN (a * SCALE) \div b + FloorDiv(((a * SCALE) % b) * b - a, b * b)
       ELSE LET B == 0 - b
            IN  0 - ((a * SCALE) \div B + (((a * SCALE) % B) * B + a) \div (B * B) + 1)

\* round(x, 2) of a fixed-point x: the nearest hundredth, ties to even
Round2Pos(x) ==
  LET u == SCALE \div Cent
      q == x \div u
      r == x % u
  IN  IF 2 * r > u THEN q + 1
      ELSE IF 2 * r < u THEN q
      ELSE IF q % 2 = 0 THEN q ELSE q + 1

Round2(x) == IF x >= 0 THEN Round2Pos(x) ELSE 0 - Round2Pos(0 - x)

\* nearest integer to n / d, ties to even
RoundDiv(n, d) ==
  LET q == FloorDiv(n - (n % d), d)
      r == n % d
  IN  IF 2 * r > d THEN q + 1
      ELSE IF 2 * r < d THEN q
      ELSE IF q % 2 = 0 THEN q ELSE q + 1

RECURSIVE SumSeq(_)
SumSeq(s) == IF s = <<>> THEN 0 ELSE Head(s) + SumSeq(Tail(s))

(***************************************************************************)
(* Texts: clean_text and difflib.SequenceMatcher                           *)
(***************************************************************************)
Lowers == << "a", "b", "c", "d", "e", "f", "g", "h", "i", "j", "k", "l", "m",
             "n", "o", "p", "q", "r", "s", "t", "u", "v", "w", "x", "y", "z" >>

Uppers == << "A", "B", "C", "D", "E", "F", "G", "H", "I", "J", "K", "L", "M",
             "N", "O", "P", "Q", "R", "S", "T", "U", "V", "W", "X", "Y", "Z" >>

Digits == { "0", "1", "2", "3", "4", "5", "6", "7", "8", "9" }

LowerSet == { Lowers[i] : i \in 1..Len(Lowers) }

UpperSet == { Uppers[i] : i \in 1..Len(Uppers) }

\* \s of the re module, on the characters of the model
IsSpace(c) == c \in { " ", "\t", "\n" }

\* str.lower() on one character
LowerChar(c) ==
  IF c \in UpperSet
  THEN Lowers[CHOOSE i \in 1..Len(Uppers) : Uppers[i] = c]
  ELSE c

\* text.lower()
lower(t) == [i \in 1..Len(t) |-> LowerChar(t[i])]

\* does the word w occur in t at position i
StartsAt(t, i, w) ==
  /\ i + Len(w) - 1 <= Len(t)
  /\ \A k \in 1..Len(w) : t[i + k - 1] = w[k]

\* first position >= i holding a space, or Len(t) + 1: the end of a \S+ run
RECURSIVE RunEnd(_, _)
RunEnd(t, i) ==
  IF i > Len(t) \/ IsSpace(t[i]) THEN i ELSE RunEnd(t, i + 1)

\* re.sub(r'http\S+|www\S+', '', t): leftmost match first, \S+ greedy and of
\* at least one character
RECURSIVE StripUrlsFrom(_, _)
StripUrlsFrom(t, i) ==
  IF i > Len(t) THEN << >>
  ELSE LET http == << "h", "t", "t", "p" >>
           www  == << "w", "w", "w" >>
           hit(w) == /\ StartsAt(t, i, w)
                     /\ i + Len(w) <= Len(t)
                     /\ ~IsSpace(t[i + Len(w)])
       IN  IF hit(http) THEN StripUrlsFrom(t, RunEnd(t, i + Len(http)))
           ELSE IF hit(www) THEN StripUrlsFrom(t, RunEnd(t, i + Len(www)))
           ELSE << t[i] >> \o StripUrlsFrom(t, i + 1)

StripUrls(t) == StripUrlsFrom(t, 1)

\* re.sub(r'[^a-z0-9\s]', '', t)
KeepAlnumSpace(t) ==
  SelectSeq(t, LAMBDA c : c \in LowerSet \/ c \in Digits \/ IsSpace(c))

\* re.sub(r'\s+', ' ', t): every run of whitespace becomes one space
RECURSIVE CollapseFrom(_, _)
CollapseFrom(t, i) ==
  IF i > Len(t) THEN << >>
  ELSE IF IsSpace(t[i])
       THEN IF i > 1 /\ IsSpace(t[i - 1]) THEN CollapseFrom(t, i + 1)
            ELSE << " " >> \o CollapseFrom(t, i + 1)
       ELSE << t[i] >> \o CollapseFrom(t, i + 1)

\* str.strip(): leading and trailing whitespace removed
RECURSIVE LStrip(_)
LStrip(t) == IF t # << >> /\ IsSpace(Head(t)) THEN LStrip(Tail(t)) ELSE t

RECURSIVE RStrip(_)
RStrip(t) ==
  IF t # << >> /\ IsSpace(t[Len(t)]) THEN RStrip(SubSeq(t, 1, Len(t) - 1)) ELSE t

strip(t) == RStrip(LStrip(t))

clean_text(text) ==
  LET t1 == lower(text)
      t2 == StripUrls(t1)
      t3 == KeepAlnumSpace(t2)
  IN  strip(CollapseFrom(t3, 1))

\* length of the common run of a from i and b from j, within a[..ahi], b[..bhi]
RECURSIVE RunLen(_, _, _, _, _, _)
RunLen(a, b, i, j, ahi, bhi) ==
  IF i > ahi \/ j > bhi \/ a[i] # b[j] THEN 0
  ELSE 1 + RunLen(a, b, i + 1, j + 1, ahi, bhi)

\* SequenceMatcher.find_longest_match(alo, ahi, blo, bhi) without junk: the
\* longest block, of those the one starting earliest in a, then earliest in b.
\* Bounds are inclusive and 1-based; <<i, j, 0>> stands for no match.
find_longest_match(a, b, alo, ahi, blo, bhi) ==
  LET Pairs == (alo..ahi) \X (blo..bhi)
      Runs == { << p[1], p[2], RunLen(a, b, p[1], p[2], ahi, bhi) >> : p \in Pairs }
      best == IF Runs = {} THEN 0
              ELSE LET top == CHOOSE r \in Runs : \A r2 \in Runs : r2[3] <= r[3]
                   IN  top[3]
      Longest == { r \in Runs : r[3] = best }
  IN  IF best = 0 THEN << alo, blo, 0 >>
      ELSE CHOOSE r \in Longest :
             \A r2 \in Longest : r[1] < r2[1] \/ (r[1] = r2[1] /\ r[2] <= r2[2])

\* sum of the sizes of SequenceMatcher.get_matching_blocks()
RECURSIVE matches(_, _, _, _, _, _)
matches(a, b, alo, ahi, blo, bhi) ==
  IF alo > ahi \/ blo > bhi THEN 0
  ELSE LET m == find_longest_match(a, b, alo, ahi, blo, bhi)
       IN  IF m[3] = 0 THEN 0
           ELSE m[3] + matches(a, b, alo, m[1] - 1, blo, m[2] - 1)
                     + matches(a, b, m[1] + m[3], ahi, m[2] + m[3], bhi)

\* the similarity test with >= 0.8 for > 0.8
IsNearDuplicateInclusive(a, b) ==
  LET T == Len(a) + Len(b)
      M == matches(a, b, 1, Len(a), 1, Len(b))
  IN  IF T = 0 THEN TRUE ELSE 10 * (2 * M) >= 8 * T

\* SequenceMatcher(None, a, b).ratio() > 0.8, with ratio = 2.0 * M / T and
\* ratio = 1.0 when both texts are empty (T = 0)
IsNearDuplicate(a, b) ==
  LET T == Len(a) + Len(b)
      M == matches(a, b, 1, Len(a), 1, Len(b))
  IN  IF T = 0 THEN TRUE ELSE 10 * (2 * M) > 8 * T

\* the texts retained by the loop of get_duplicate_content_ratio: the items
\* whose raw text is truthy and not blank, cleaned
RetainedTexts(items) ==
  LET keep == SelectSeq(items, LAMBDA it : it.text # << >> /\ strip(it.text) # << >>)
  IN  [i \in 1..Len(keep) |-> clean_text(keep[i].text)]

\* get_duplicate_content_ratio giving up below 2 texts instead of 3
get_duplicate_content_ratio_from_two(items) ==
  LET texts == RetainedTexts(items)
      n == Len(texts)
      pairs == { p \in (1..n) \X (1..n) : p[1] < p[2] }
      duplicate_count ==
        Cardinality({ p \in pairs : IsNearDuplicate(texts[p[1]], texts[p[2]]) })
  IN  IF n < 2 THEN 0
      ELSE (duplicate_count * SCALE) \div Max(Cardinality(pairs), 1)

\* get_duplicate_content_ratio(items, content_key), in fixed point
get_duplicate_content_ratio(items) ==
  LET texts == RetainedTexts(items)
      n == Len(texts)
      pairs == { p \in (1..n) \X (1..n) : p[1] < p[2] }
      duplicate_count ==
        Cardinality({ p \in pairs : IsNearDuplicate(texts[p[1]], texts[p[2]]) })
      total_comparisons == Cardinality(pairs)
  IN  IF n < 3 THEN 0
      ELSE (duplicate_count * SCALE) \div Max(total_comparisons, 1)

(***************************************************************************)
(* compute_features (enhanced_bot_detector.py)                             *)
(***************************************************************************)
\* time.time() of the model, in whole days
NowDay == 20000

\* the account ages of the model, in days
AgeDaysSet == { 0, 1, 5, 90, 1095 }

\* math.exp(-d / 90) and np.exp(-d / 180) at the ages of the model, in fixed
\* point
ExpTable90 ==
  0 :> 1000000 @@ 1 :> 988950 @@ 2 :> 978022 @@ 3 :> 967216 @@ 5 :> 945959
  @@ 30 :> 716531 @@ 45 :> 606530 @@ 90 :> 367879 @@ 200 :> 108368
  @@ 400 :> 11743 @@ 1095 :> 5 @@ 1100 :> 4

ExpTable180 ==
  0 :> 1000000 @@ 1 :> 994459 @@ 2 :> 988950 @@ 3 :> 983471 @@ 5 :> 972604
  @@ 30 :> 846481 @@ 45 :> 778800 @@ 90 :> 606530 @@ 200 :> 329192
  @@ 400 :> 108368 @@ 1095 :> 2280 @@ 1100 :> 2218

ExpNeg90(age_days) == ExpTable90[age_days]

ExpNeg180(age_days) == ExpTable180[age_days]

\* \w of the re module on the characters of the model
IsWordChar(c) == c \in LowerSet \/ c \in UpperSet \/ c \in Digits \/ c = "_"

\* re.match(r'^\w+_\w+\d{4}$', username)
MatchesWordWordDigits(u) ==
  LET n == Len(u)
  IN  /\ n >= 7
      /\ \A i \in 1..n : IsWordChar(u[i])
      /\ \A i \in (n - 3)..n : u[i] \in Digits
      /\ \E i \in 2..(n - 5) : u[i] = "_"

\* re.match(r'^[a-z]{8,}\d{4,}$', username.lower())
MatchesLettersDigits(u) ==
  LET n == Len(u)
      v == lower(u)
  IN  \E k \in 8..(n - 4) :
        /\ \A i \in 1..k : v[i] \in LowerSet
        /\ \A i \in (k + 1)..n : v[i] \in Digits

\* str.isalpha()
isalpha(u) == u # << >> /\ \A i \in 1..Len(u) : u[i] \in LowerSet \/ u[i] \in UpperSet

\* username_suspicious of compute_features, in fixed point
UsernameSuspicious(username) ==
  IF MatchesWordWordDigits(username) THEN (5 * SCALE) \div 10
  ELSE IF MatchesLettersDigits(username) THEN (7 * SCALE) \div 10
  ELSE IF Len(username) > 20 \/ (Len(username) < 4 /\ ~isalpha(username))
       THEN (3 * SCALE) \div 10
       ELSE 0

\* sorted(times)
RECURSIVE Insert(_, _)
Insert(x, s) ==
  IF s = << >> THEN << x >>
  ELSE IF x <= Head(s) THEN << x >> \o s
       ELSE << Head(s) >> \o Insert(x, Tail(s))

RECURSIVE sorted(_)
sorted(s) == IF s = << >> THEN << >> ELSE Insert(Head(s), sorted(Tail(s)))

\* np.diff(times)
diff(times) == [i \in 1..(Len(times) - 1) |-> times[i + 1] - times[i]]

(***************************************************************************)
(* float64 arithmetic on timestamps that are whole numbers                 *)
(***************************************************************************)
\* A whole number below 2^53 is a float64 without rounding; it is kept as
\* << hi, lo >> = hi * 2^24 + lo. The gaps of np.diff and their sum (the last
\* timestamp minus the first) are such numbers, so they are exact; the
\* quotients and products of the mean gap are rounded to 53 bits, ties to
\* even, as the hardware does.
Limb == 2^24

Wide(t) == << t \div Limb, t % Limb >>

WideLess(a, b) == a[1] < b[1] \/ (a[1] = b[1] /\ a[2] < b[2])

WideAdd(a, b) ==
  << a[1] + b[1] + (a[2] + b[2]) \div Limb, (a[2] + b[2]) % Limb >>

\* a - b for a >= b
WideSub(a, b) ==
  IF a[2] >= b[2] THEN << a[1] - b[1], a[2] - b[2] >>
  ELSE << a[1] - b[1] - 1, a[2] + Limb - b[2] >>

\* floor(a / 2) and a mod 2
WideHalf(a) ==
  << << a[1] \div 2, (a[1] % 2) * (Limb \div 2) + a[2] \div 2 >>, a[2] % 2 >>

\* a float64 x >= 0 is << m, s >>, x = m * 2^(-s), with 2^52 <= m < 2^53 or
\* m = 0; RoundEven(q, s, up, tie) is << q, s >> rounded by the part dropped
\* below q: up when it is above one half, tie when it is one half exactly
RoundEven(q, s, up, tie) ==
  LET q1 == WideAdd(q, << 0, 1 >>)
  IN  IF up \/ (tie /\ q[2] % 2 = 1)
      THEN (IF q1[1] = 2^29 THEN << << 2^28, 0 >>, s - 1 >> ELSE << q1, s >>)
      ELSE << q, s >>

\* long division: the quotient q and remainder r of a by n, carried on bit by
\* bit until q has 53 bits, then rounded
RECURSIVE DivBits(_, _, _, _)
DivBits(q, r, n, s) ==
  IF q[1] >= 2^28 THEN RoundEven(q, s, 2 * r > n, 2 * r = n)
  ELSE LET bit == IF 2 * r >= n THEN 1 ELSE 0
       IN  CHOOSE x \in { DivBits(next[1], next[2], n, s + 1) :
                            next \in { << WideAdd(WideAdd(q, q), << 0, bit >>),
                                          2 * r - n * bit >> } } : TRUE

\* the float64 quotient of a * 2^(-s) by the small whole number n
FloatDiv(a, s, n) ==
  LET top == a[1] % n
      low == top * Limb + a[2]
  IN  IF a = << 0, 0 >> THEN << a, 0 >>
      ELSE DivBits(<< a[1] \div n, low \div n >>, low % n, n, s)

\* the float64 product of x by 5: 5m / 4 = m + floor(m / 4) + (m mod 4) / 4,
\* halved once more when it has 54 bits
FloatTimes5(x) ==
  LET m == x[1]
      quarter == WideHalf(WideHalf(m)[1])[1]
      rest == m[2] % 4
      q == WideAdd(m, quarter)
      h == WideHalf(q)
  IN  IF m = << 0, 0 >> THEN x
      ELSE IF q[1] < 2^29
           THEN RoundEven(q, x[2] - 2, rest = 3, rest = 2)
           ELSE RoundEven(h[1], x[2] - 3, h[2] = 1 /\ rest > 0, h[2] = 1 /\ rest = 0)

\* floor(m / 2^s) and whether something was dropped
RECURSIVE ShiftRight(_, _, _)
ShiftRight(m, s, dropped) ==
  IF s = 0 \/ m = << 0, 0 >> THEN << m, dropped >>
  ELSE CHOOSE x \in { ShiftRight(h[1], s - 1, dropped \/ h[2] = 1) :
                        h \in { WideHalf(m) } } : TRUE

\* d > x and d < x for a whole number d and a float64 x
Above(d, x) ==
  IF x[2] < 0 THEN FALSE
  ELSE WideLess(ShiftRight(x[1], x[2], FALSE)[1], d)

Below(d, x) ==
  IF x[2] < 0 THEN TRUE
  ELSE LET f == ShiftRight(x[1], x[2], FALSE)
       IN  WideLess(d, f[1]) \/ (d = f[1] /\ f[2])

RECURSIVE WideSum(_)
WideSum(ws) ==
  IF ws = << >> THEN << 0, 0 >>
  ELSE CHOOSE x \in { WideAdd(Head(ws), rest) : rest \in { WideSum(Tail(ws)) } } : TRUE

\* activity_spike_score: 1.0 when, with more than 5 events and a positive
\* mean gap, some gap above 5 * mean is directly followed by one below mean / 5.
\* With mean = sum / n: d > 5 * mean iff n * d > 5 * sum, and d < mean / 5 iff
\* 5 * n * d < sum.
\* sorted(times) for timestamps kept as << hi, lo >>
RECURSIVE InsertTime(_, _)
InsertTime(x, s) ==
  IF s = << >> THEN << x >>
  ELSE IF ~ WideLess(Head(s), x) THEN << x >> \o s
       ELSE << Head(s) >> \o InsertTime(x, Tail(s))

RECURSIVE sorted_times(_)
sorted_times(s) ==
  IF s = << >> THEN << >>
  ELSE CHOOSE x \in { InsertTime(Head(s), rest) :
                        rest \in { sorted_times(Tail(s)) } } : TRUE

\* the two comparisons taken at unrelated indices
SpikeFoundAnywhere(deltas, mean_gap) ==
  \E above \in { FloatTimes5(mean_gap) } :
    \E below \in { FloatDiv(mean_gap[1], mean_gap[2], 5) } :
      \E i, j \in 1..Len(deltas) :
        /\ Above(deltas[i], above)
        /\ Below(deltas[j], below)

\* the test of np.any: deltas[:-1] > mean_gap * 5 and deltas[1:] < mean_gap / 5
\* hold at the same index
SpikeFound(deltas, mean_gap) ==
  \E above \in { FloatTimes5(mean_gap) } :
    \E below \in { FloatDiv(mean_gap[1], mean_gap[2], 5) } :
      \E i \in 1..(Len(deltas) - 1) :
        /\ Above(deltas[i], above)
        /\ Below(deltas[i + 1], below)

\* lines 110-118 for the created_utc values of posts + comments
activity_spike_score(created) ==
  IF \E times \in { sorted_times(created) } :
       /\ Len(times) > 5
       /\ \E deltas \in { [i \in 1..(Len(times) - 1) |->
                              WideSub(times[i + 1], times[i])] } :
            \E mean_gap \in { FloatDiv(WideSum(deltas), 0, Len(deltas)) } :
              /\ mean_gap[1] # << 0, 0 >>
              /\ SpikeFound(deltas, mean_gap)
  THEN SCALE ELSE 0

ActivitySpikeScore(posts, comments) ==
  CHOOSE x \in
    { activity_spike_score([i \in 1..Len(events) |-> Wide(events[i].created_utc)]) :
        events \in { posts \o comments } } : TRUE

\* post_to_karma_score = min(post_to_karma_ratio * 10, 1.0), the factor 10
\* taken into the quotient to keep the last digit
PostToKarmaScore(total_posts, total_karma) ==
  Min(DivEps(10 * total_posts, total_karma), SCALE)

\* compute_features(user_data), the clock having been read as `clock`
compute_features(user_data, clock) ==
  LET age_days == clock - user_data.created_utc
      posts == user_data.posts
      comments == user_data.comments
      c_to_p == DivEps(Len(comments), Len(posts))
      subreddits == { posts[i].subreddit : i \in 1..Len(posts) }
                      \cup { comments[i].subreddit : i \in 1..Len(comments) }
      subreddit_count == Cardinality(subreddits)
      total_posts == Len(posts) + Len(comments)
      total_karma == user_data.link_karma + user_data.comment_karma
      comment_dupe_ratio == get_duplicate_content_ratio(comments)
      post_dupe_ratio == get_duplicate_content_ratio(posts)
      \* posts_per_day / 20 with posts_per_day = total_posts / max(age_days, 1)
      posts_per_day_x20 == (total_posts * SCALE) \div (20 * Max(age_days, 1))
      \* total_karma / max(total_posts, 1), in KarmaUnit
      avg_karma_per_post == FloorDiv(total_karma * KarmaUnit, Max(total_posts, 1))
  IN  [ age_score |-> ExpNeg180(age_days),
        age_days |-> age_days,
        comment_to_post_score |->
          IF c_to_p < SCALE THEN SCALE - Min(SCALE, c_to_p) ELSE 0,
        subreddit_diversity_score |->
          SCALE - Min((subreddit_count * SCALE) \div 10, SCALE),
        subreddit_count |-> subreddit_count,
        activity_spike_score |-> ActivitySpikeScore(posts, comments),
        post_to_karma_score |-> PostToKarmaScore(total_posts, total_karma),
        duplicate_content_score |-> Max(comment_dupe_ratio, post_dupe_ratio),
        posts_per_day_score |-> Min(posts_per_day_x20, SCALE),
        username_suspicious_score |-> UsernameSuspicious(user_data.username),
        low_karma_score |-> IF avg_karma_per_post < 2 * KarmaUnit THEN SCALE ELSE 0,
        verification_penalty |->
          IF user_data.is_verified THEN 0 ELSE (2 * SCALE) \div 10,
        total_posts |-> Len(posts),
        total_comments |-> Len(comments),
        total_karma |-> total_karma,
        avg_karma_per_post |-> avg_karma_per_post ]

(***************************************************************************)
(* compute_bot_score_100_enhanced and classify_bot_likelihood              *)
(***************************************************************************)
\* the age penalty with max for min: never below 20 points
AgePenaltyAtLeast(features) == 20 * Max(SCALE, ExpNeg90(features.age_days))

\* the contribution of each bucket, unrounded, in fixed-point points
AgePenalty(features) == 20 * Min(SCALE, ExpNeg90(features.age_days))

\* the activity bucket with the rate threshold reversed (< 0.5 for > 0.5)
ActivityScoreBelowHalf(features) ==
  LET spike == IF features.activity_spike_score > 0 THEN 10 * SCALE ELSE 0
      rate == IF 2 * features.posts_per_day_score < SCALE
              THEN 10 * features.posts_per_day_score ELSE 0
  IN  Min(spike + rate + 5 * features.username_suspicious_score, 20 * SCALE)

ActivityScore(features) ==
  LET spike == IF features.activity_spike_score > 0 THEN 10 * SCALE ELSE 0
      rate == IF 2 * features.posts_per_day_score > SCALE
              THEN 10 * features.posts_per_day_score ELSE 0
  IN  Min(spike + rate + 5 * features.username_suspicious_score, 20 * SCALE)

ContentScore(features) ==
  Min(15 * features.duplicate_content_score + 5 * features.low_karma_score,
      20 * SCALE)

EngagementScore(features) == 20 * Min(features.post_to_karma_score * 2, SCALE)

DiversityScore(features) ==
  Min(15 * features.subreddit_diversity_score + 5 * features.comment_to_post_score,
      20 * SCALE)

VerificationScore(features) == features.verification_penalty * 5

\* total_score just before the final min(total_score, 100)
TotalScore(features) ==
  AgePenalty(features) + ActivityScore(features) + ContentScore(features)
    + EngagementScore(features) + DiversityScore(features)
    + VerificationScore(features)

\* the breakdown dictionary: every entry round(., 2), in hundredths
Breakdown(features) ==
  [ account_age_penalty |-> Round2(AgePenalty(features)),
    activity_pattern_penalty |-> Round2(ActivityScore(features)),
    content_quality_penalty |-> Round2(ContentScore(features)),
    engagement_penalty |-> Round2(EngagementScore(features)),
    diversity_penalty |-> Round2(DiversityScore(features)),
    verification_penalty |-> Round2(VerificationScore(features)) ]

\* the cap of the returned score: min(total_score, 100)
MaxScore == 100

\* the returned score: round(min(total_score, 100), 2), in hundredths
BotScore100(features) == Round2(Min(TotalScore(features), MaxScore * SCALE))

compute_bot_score_100_enhanced(features) ==
  << BotScore100(features), Breakdown(features) >>

\* the classifier with its bounds taken inclusive above (<= for <)
classify_inclusive_upper(bot_score_100) ==
  IF bot_score_100 <= 30 * Cent
  THEN [ classification |-> "Likely Human", confidence |-> "High",
         description |-> "Normal user behavior patterns detected",
         risk_level |-> "Low" ]
  ELSE IF bot_score_100 <= 50 * Cent
  THEN [ classification |-> "Possibly Suspicious", confidence |-> "Medium",
         description |-> "Some bot-like characteristics detected",
         risk_level |-> "Medium" ]
  ELSE IF bot_score_100 <= 70 * Cent
  THEN [ classification |-> "Likely Bot", confidence |-> "Medium-High",
         description |-> "Multiple bot indicators present",
         risk_level |-> "High" ]
  ELSE [ classification |-> "Almost Certainly Bot", confidence |-> "Very High",
         description |-> "Strong bot behavior patterns detected",
         risk_level |-> "Critical" ]

\* classify_bot_likelihood(bot_score_100), the score in hundredths
classify_bot_likelihood(bot_score_100) ==
  IF bot_score_100 < 30 * Cent
  THEN [ classification |-> "Likely Human", confidence |-> "High",
         description |-> "Normal user behavior patterns detected",
         risk_level |-> "Low" ]
  ELSE IF bot_score_100 < 50 * Cent
  THEN [ classification |-> "Possibly Suspicious", confidence |-> "Medium",
         description |-> "Some bot-like characteristics detected",
         risk_level |-> "Medium" ]
  ELSE IF bot_score_100 < 70 * Cent
  THEN [ classification |-> "Likely Bot", confidence |-> "Medium-High",
         description |-> "Multiple bot indicators present",
         risk_level |-> "High" ]
  ELSE [ classification |-> "Almost Certainly Bot", confidence |-> "Very High",
         description |-> "Strong bot behavior patterns detected",
         risk_level |-> "Critical" ]

\* one sentence of the red-flag list: its wording and the number quoted in it
\* (0 for a sentence that quotes none)
Sentence(text, value) == [ text |-> text, value |-> value ]

NoRedFlags == Sentence("No major red flags detected", 0)

\* the sentence appended for a triggered indicator, << >> otherwise
FlagIf(triggered, text, value) ==
  IF triggered THEN << Sentence(text, value) >> ELSE << >>

\* lines 310-330 of generate_red_flags: the sentences of the triggered
\* indicators, in the order of the tests; ages and rates quoted in tenths,
\* the duplicate share in tenths of a percent, the karma in hundredths
TriggeredFlags(features) ==
  FlagIf(features.age_days < 90, "Very new account", 10 * features.age_days)
  \o FlagIf(features.subreddit_count < 3, "Limited subreddit activity",
            features.subreddit_count)
  \o FlagIf(features.activity_spike_score > 0, "Unusual activity spikes detected", 0)
  \o FlagIf(10 * features.duplicate_content_score > 3 * SCALE,
            "High duplicate content",
            RoundDiv(features.duplicate_content_score, SCALE \div 1000))
  \o FlagIf(10 * features.posts_per_day_score > 7 * SCALE,
            "Extremely high posting frequency",
            RoundDiv(10 * features.total_posts, Max(features.age_days, 1)))
  \o FlagIf(features.avg_karma_per_post < 2 * KarmaUnit, "Very low engagement",
            RoundDiv(features.total_karma * Cent,
                     Max(features.total_posts + features.total_comments, 1)))
  \o FlagIf(10 * features.username_suspicious_score > 5 * SCALE,
            "Username follows auto-generated pattern", 0)

\* generate_red_flags with the closing sentence appended unconditionally
generate_red_flags_always_closing(features, bot_score_100) ==
  TriggeredFlags(features) \o << NoRedFlags >>

\* generate_red_flags(features, bot_score)
generate_red_flags(features, bot_score_100) ==
  IF TriggeredFlags(features) = << >> THEN << NoRedFlags >>
  ELSE TriggeredFlags(features)

\* generate_recommendations with its bounds taken inclusive above (<= for <)
generate_recommendations_inclusive(bot_score_100, features) ==
  IF bot_score_100 <= 30 * Cent
  THEN "Account appears legitimate. No action needed."
  ELSE IF bot_score_100 <= 50 * Cent
  THEN "Monitor account activity. Consider manual review if behavior persists."
  ELSE IF bot_score_100 <= 70 * Cent
  THEN "High probability of bot activity. Recommend flagging for review and possible restrictions."
  ELSE "Very high probability of bot activity. Immediate action recommended: ban or severe restrictions."

\* generate_recommendations(bot_score, features)
generate_recommendations(bot_score_100, features) ==
  IF bot_score_100 < 30 * Cent
  THEN "Account appears legitimate. No action needed."
  ELSE IF bot_score_100 < 50 * Cent
  THEN "Monitor account activity. Consider manual review if behavior persists."
  ELSE IF bot_score_100 < 70 * Cent
  THEN "High probability of bot activity. Recommend flagging for review and possible restrictions."
  ELSE "Very high probability of bot activity. Immediate action recommended: ban or severe restrictions."

\* the account_info block of the result (lines 281-289): the age in tenths of
\* a day, the averages in hundredths
AccountInfo(features) ==
  [ account_age_days |-> 10 * features.age_days,
    total_posts |-> features.total_posts,
    total_comments |-> features.total_comments,
    total_karma |-> features.total_karma,
    subreddit_count |-> features.subreddit_count,
    avg_karma_per_post |->
      RoundDiv(features.total_karma * Cent,
               Max(features.total_posts + features.total_comments, 1)),
    posts_per_day |->
      RoundDiv(features.total_posts * Cent, Max(features.age_days, 1)) ]

(***************************************************************************)
(* Activity records of the model                                           *)
(***************************************************************************)
\* usernames: plain, short with a digit (0.3), word_word#### (0.5) and
\* letters{8,}digits{4,} (0.7)
Usernames ==
  { << "a", "l", "i", "c", "e" >>,
    << "a", "b", "1" >>,
    << "j", "o", "_", "d", "o", "e", "1", "2", "3", "4" >>,
    << "a", "b", "c", "d", "e", "f", "g", "h", "1", "2", "3", "4" >> }

LinkKarmas == { -5, 0, 40 }

CommentKarmas == { 0, 10000 }

PostCounts == { 0, 1, 3 }

CommentCounts == { 0, 2, 7, 12 }

\* how the timestamps, communities and texts of a record's items are laid out
\* (timestamps, communities, texts):
\*   timestamps  "same" all at once, "even" evenly spaced, "burst" a long
\*               silence before the last two items;
\*   communities "one" a single subreddit, "many" one per item;
\*   texts       "same" boilerplate, "varied" pairwise unlike, "mixed" every
\*               other one boilerplate, "blank" empty.
Layouts ==
  { << "same", "one", "same" >>, << "even", "many", "varied" >>,
    << "burst", "one", "mixed" >>, << "even", "one", "blank" >>,
    << "burst", "many", "same" >>, << "same", "many", "mixed" >> }

\* created_utc of item i of n
ItemTime(tpat, i, n) ==
  IF tpat = "same" THEN 1000
  ELSE IF tpat = "even" THEN 1000 + 100 * i
  ELSE IF i <= n - 2 THEN 1000 ELSE 90000

SubNames == << "r1", "r2", "r3", "r4", "r5", "r6", "r7", "r8", "r9", "r10",
               "r11", "r12", "r13", "r14", "r15" >>

\* "fifteen" goes round the fifteen communities, "three" round the first
\* three
ItemSub(spat, i) ==
  IF spat = "one" THEN SubNames[1]
  ELSE IF spat = "fifteen" THEN SubNames[((i - 1) % Len(SubNames)) + 1]
  ELSE IF spat = "three" THEN SubNames[((i - 1) % 3) + 1]
  ELSE SubNames[i]

\* a two-letter word sharing no letter with the word of another index
VariedText(i) == << Lowers[2 * i + 2], Lowers[2 * i + 3] >>

BoilerText == << "T", "h", "x", " ", "a", "!" >>

\* the boilerplate with its last character varied: any two of these are alike
\* in five characters of six
NearText(i) == << "T", "h", "x", " ", "a", Lowers[(i % 3) + 2] >>

\* "near" texts differ in one character, "letters" texts are single letters,
\* no two alike, "three_alike" texts are the boilerplate three times and
\* then pairwise unlike
ItemText(xpat, i) ==
  IF xpat = "same" THEN BoilerText
  ELSE IF xpat = "three_alike"
       THEN (IF i <= 3 THEN BoilerText ELSE VariedText(((i - 1) % 11) + 1))
  ELSE IF xpat = "near" THEN NearText(i)
  ELSE IF xpat = "letters" THEN << Lowers[i] >>
  ELSE IF xpat = "varied" THEN VariedText(((i - 1) % 11) + 1)
  ELSE IF xpat = "mixed"
       THEN (IF i % 2 = 1 THEN BoilerText ELSE VariedText(((i - 1) % 11) + 1))
       ELSE << >>

\* n posts or comments: a PostRecord / CommentRecord is its created_utc, its
\* subreddit and its text (the title of a post, the body of a comment)
MkItems(n, tpat, spat, xpat) ==
  [ i \in 1..n |-> [ created_utc |-> ItemTime(tpat, i, n),
                     subreddit |-> ItemSub(spat, i),
                     text |-> ItemText(xpat, i) ] ]

\* the user_data dictionary built by fetch_user_data(username) for an account
\* created a days ago, with np posts and nc comments laid out as l
MkUserData(u, a, lk, ck, v, np, nc, l) ==
  [ username |-> u, created_utc |-> NowDay - a, link_karma |-> lk,
    comment_karma |-> ck, is_verified |-> v,
    posts |-> MkItems(np, l[1], l[2], l[3]),
    comments |-> MkItems(nc, l[1], l[2], l[3]) ]

\* the user_data dictionaries fetch_user_data can return
UserRecords ==
  { MkUserData(u, a, lk, ck, v, np, nc, l) :
      u \in Usernames, a \in AgeDaysSet, lk \in LinkKarmas, ck \in CommentKarmas,
      v \in BOOLEAN, np \in PostCounts, nc \in CommentCounts, l \in Layouts }

(***************************************************************************)
(* State                                                                   *)
(***************************************************************************)
VARIABLES
  pc,          \* position of the run
  user_data,   \* the activity record under analysis
  features,    \* compute_features(user_data)
  bot_score,   \* the returned score, in hundredths
  breakdown,   \* the returned breakdown, entries in hundredths
  result,      \* the dictionary returned by analyze_user_comprehensive
  usernames,   \* the usernames passed to analyze_multiple_users
  idx,         \* number of usernames the loop has gone through
  results,     \* the results list of analyze_multiple_users
  output,      \* the dictionary returned by analyze_multiple_users
  report_file, \* the content of the JSON report written, if any
  openai_semaphore, \* the counter of _openai_semaphore
  calls,       \* how many calls of create_openai_completion are at each position
  pagination   \* the locals of fetch_subreddit_posts and the requests it made

accountVars == << user_data, features, bot_score, breakdown, result >>

batchVars == << usernames, idx, results, output, report_file >>

openaiVars == << openai_semaphore, calls >>

vars == << pc, accountVars, batchVars, openaiVars, pagination >>

\* Python's None, and a present value x as << x >>
None == << >>

Some(x) == << x >>

\* the two ways a call ends
Return(value) == [ raised |-> FALSE, value |-> value ]

Raise(error) == [ raised |-> TRUE, error |-> error ]

\* analyze_multiple_users has not been called
NoBatch ==
  /\ usernames = None
  /\ idx = None
  /\ results = None
  /\ output = None
  /\ report_file = None

\* create_openai_completion has not been called
NoOpenai ==
  /\ openai_semaphore = None
  /\ calls = None

\* fetch_subreddit_posts has not been called
NoPagination == pagination = None

\* the instants datetime.now() can read, counted from the reading of
\* time.time() made by compute_features
Instants == { 0, 1 }

\* the readings of the clock made during one call: time.time() in
\* compute_features (line 97), datetime.now() for analyzed_at (lines 274, 302)
Clock(instant) == [ time |-> NowDay, datetime_now |-> instant ]

\* the dictionary built at lines 272-292
FullResult(username, f, score, parts, analyzed_at) ==
  [ username |-> username,
    analyzed_at |-> analyzed_at,
    bot_score |-> Some(score),
    classification |-> classify_bot_likelihood(score).classification,
    confidence |-> classify_bot_likelihood(score).confidence,
    risk_level |-> classify_bot_likelihood(score).risk_level,
    description |-> classify_bot_likelihood(score).description,
    breakdown |-> parts,
    account_info |-> AccountInfo(f),
    red_flags |-> generate_red_flags(f, score),
    recommendations |-> generate_recommendations(score, f) ]

\* the dictionary built by the except clause, lines 296-303
ErrorResult(username, error, analyzed_at) ==
  [ username |-> username, error |-> error, bot_score |-> None,
    classification |-> "Error", analyzed_at |-> analyzed_at ]

\* the number of pairs get_duplicate_content_ratio compares (lines 82-90)
total_comparisons(items) ==
  LET n == Len(SelectSeq(items, LAMBDA it :
                             \E k \in 1..Len(it.text) : ~ IsSpace(it.text[k])))
  IN  (n * (n - 1)) \div 2

\* the divisors of compute_features with the max(., 1) guards of the age and
\* of the number of posts left out
DivisorsUnguarded(data, clock) ==
  LET total_posts == Len(data.posts) + Len(data.comments)
  IN  { << Len(data.posts), 1 >>,
        << data.link_karma + data.comment_karma, 1 >>,
        << clock - data.created_utc, 0 >>,
        << total_posts, 0 >>,
        << Max(total_comparisons(data.posts), 1), 0 >>,
        << Max(total_comparisons(data.comments), 1), 0 >> }
      \cup (IF total_posts > 5 THEN { << total_posts - 1, 0 >> } ELSE { })

\* the divisors of compute_features and get_duplicate_content_ratio, each as
\* << whole part, millionths >>: len(posts) + 1e-6, total_karma + 1e-6,
\* max(age_days, 1), max(total_posts, 1), max(total_comparisons, 1) and the
\* number of gaps averaged by np.mean
Divisors(data, clock) ==
  LET total_posts == Len(data.posts) + Len(data.comments)
  IN  { << Len(data.posts), 1 >>,
        << data.link_karma + data.comment_karma, 1 >>,
        << Max(clock - data.created_utc, 1), 0 >>,
        << Max(total_posts, 1), 0 >>,
        << Max(total_comparisons(data.posts), 1), 0 >>,
        << Max(total_comparisons(data.comments), 1), 0 >> }
      \cup (IF total_posts > 5 THEN { << total_posts - 1, 0 >> } ELSE { })

\* a division of compute_features(data) is a division by zero
DividesByZero(data, clock) == << 0, 0 >> \in Divisors(data, clock)

\* compute_features(data) as a call: a division by zero raises
try_compute_features(data, clock) ==
  IF DividesByZero(data, clock)
  THEN Raise("ZeroDivisionError: division by zero")
  ELSE Return(compute_features(data, clock))

\* lines 268-292, the user_data fetched
AnalyzeFetched(username, data, clock) ==
  IF DividesByZero(data, clock.time)
  THEN try_compute_features(data, clock.time)
  ELSE CHOOSE call \in
         UNION { { Return(FullResult(username, f, scored[1], scored[2],
                                     clock.datetime_now)) :
                     scored \in { compute_bot_score_100_enhanced(f) } } :
                 f \in { try_compute_features(data, clock.time).value } } : TRUE

\* analyze_user_comprehensive without its except clause: a failure of the
\* fetch or of the scoring leaves the function as an exception
analyze_user_uncaught(username, fetched, clock) ==
  IF fetched.raised THEN Raise(fetched.error)
  ELSE AnalyzeFetched(username, fetched.value, clock)

\* analyze_user_comprehensive with a red-flag list that outlives the call: the
\* sentences of the previous result are still in it
analyze_user_carrying(username, fetched, clock) ==
  IF fetched.raised
  THEN Return(ErrorResult(username, fetched.error, clock.datetime_now))
  ELSE Return([ AnalyzeFetched(username, fetched.value, clock).value
                  EXCEPT !.red_flags =
                    (IF result # None /\ "red_flags" \in DOMAIN result
                     THEN result.red_flags ELSE << >>) \o @ ])

\* analyze_user_comprehensive(username), `fetched` being how fetch_user_data
\* ends (the user_data, or the exception raised) and `clock` what the clock
\* reads during the call
analyze_user_comprehensive(username, fetched, clock) ==
  IF fetched.raised
  THEN Return(ErrorResult(username, fetched.error, clock.datetime_now))
  ELSE CHOOSE call \in
         { IF analysed.raised
           THEN Return(ErrorResult(username, analysed.error, clock.datetime_now))
           ELSE analysed :
             analysed \in { AnalyzeFetched(username, fetched.value, clock) } } : TRUE

(***************************************************************************)
(* analyze_user_comprehensive on one fetched record                        *)
(***************************************************************************)
Init ==
  /\ pc = "fetched"
  /\ user_data \in UserRecords
  /\ features = None
  /\ bot_score = None
  /\ breakdown = None
  /\ result = None
  /\ NoBatch
  /\ NoOpenai
  /\ NoPagination

\* lines 268-303: features, score and breakdown, classification, result, or
\* the error entry
AnalyzeUserComprehensive ==
  /\ pc = "fetched"
  /\ IF DividesByZero(user_data, NowDay)
     THEN /\ features' = None
          /\ bot_score' = None
          /\ breakdown' = None
          /\ \E instant \in Instants :
               result' = ErrorResult(user_data.username,
                                     try_compute_features(user_data, NowDay).error,
                                     instant)
     ELSE /\ features' = try_compute_features(user_data, NowDay).value
          /\ bot_score' = compute_bot_score_100_enhanced(features')[1]
          /\ breakdown' = compute_bot_score_100_enhanced(features')[2]
          /\ \E instant \in Instants :
               result' = FullResult(user_data.username, features', bot_score',
                                    breakdown', instant)
  /\ pc' = "done"
  /\ UNCHANGED << user_data, batchVars >>
  /\ UNCHANGED << openaiVars, pagination >>

Next == AnalyzeUserComprehensive

Spec == Init /\ [][Next]_vars

(***************************************************************************)
(* Properties of the single-account analysis (Spec)                        *)
(***************************************************************************)
\* the fields of a FeatureSet named *_score
ScoreFields(f) ==
  << f.age_score, f.comment_to_post_score, f.subreddit_diversity_score,
     f.activity_spike_score, f.post_to_karma_score, f.duplicate_content_score,
     f.posts_per_day_score, f.username_suspicious_score, f.low_karma_score >>

\* the entries of a breakdown with a declared allocation of 20 points
BucketEntries(b) ==
  << b.account_age_penalty, b.activity_pattern_penalty, b.content_quality_penalty,
     b.engagement_penalty, b.diversity_penalty >>

BreakdownSum(b) == SumSeq(BucketEntries(b)) + b.verification_penalty

\* C1: for every activity record (age >= 0, any counts, any integer karma) the
\* composite score returned for its features lies in [0, 100].
C1_ScoreInRange ==
  pc = "done" => bot_score >= 0 /\ bot_score <= MaxScore * Cent

\* C2: every *_score field of the FeatureSet returned by compute_features
\* lies in [0, 1].
C2_FeatureScoresInUnit ==
  pc = "done" =>
    \A i \in 1..Len(ScoreFields(features)) :
      ScoreFields(features)[i] >= 0 /\ ScoreFields(features)[i] <= SCALE

\* C8: each entry of the breakdown is non-negative and within its allocation:
\* the five buckets in [0, 20], the verification penalty in [0, 5].
C8_BreakdownWithinAllocation ==
  pc = "done" =>
    /\ \A i \in 1..Len(BucketEntries(breakdown)) :
         BucketEntries(breakdown)[i] >= 0 /\ BucketEntries(breakdown)[i] <= 20 * Cent
    /\ breakdown.verification_penalty >= 0
    /\ breakdown.verification_penalty <= 5 * Cent

\* C9: the reported entries of the breakdown add up to the reported total
\* before clamping, hence to the returned score whenever the unclamped sum is
\* at most 100.
C9_BreakdownSumsToTotal ==
  pc = "done" =>
    /\ BreakdownSum(breakdown) = Round2(TotalScore(features))
    /\ TotalScore(features) <= MaxScore * SCALE => BreakdownSum(breakdown) = bot_score

\* the indicators of generate_red_flags that the FeatureSet triggers, each
\* named by the wording of its sentence
Indicators(f) ==
  { x \in { "Very new account", "Limited subreddit activity",
            "Unusual activity spikes detected", "High duplicate content",
            "Extremely high posting frequency", "Very low engagement",
            "Username follows auto-generated pattern" } :
      \/ x = "Very new account" /\ f.age_days < 90
      \/ x = "Limited subreddit activity" /\ f.subreddit_count < 3
      \/ x = "Unusual activity spikes detected" /\ f.activity_spike_score > 0
      \/ x = "High duplicate content" /\ 10 * f.duplicate_content_score > 3 * SCALE
      \/ x = "Extremely high posting frequency"
           /\ 10 * f.posts_per_day_score > 7 * SCALE
      \/ x = "Very low engagement" /\ f.avg_karma_per_post < 2 * KarmaUnit
      \/ x = "Username follows auto-generated pattern"
           /\ 10 * f.username_suspicious_score > 5 * SCALE }

\* C15: the red-flag list is never empty: it holds exactly one sentence per
\* triggered indicator, and it is the single sentence 'No major red flags
\* detected' if and only if no indicator is triggered
C15_RedFlagsPerIndicator ==
  pc = "done" =>
    LET flags == result.red_flags
        texts == { flags[i].text : i \in 1..Len(flags) }
    IN  /\ Len(flags) >= 1
        /\ Cardinality(texts) = Len(flags)
        /\ Indicators(features) # {} => texts = Indicators(features)
        /\ Indicators(features) = {} <=> flags = << NoRedFlags >>
        /\ NoRedFlags.text \in texts => Len(flags) = 1

\* an analysis in which no indicator is triggered has returned the single
\* closing sentence
C15_Witness ==
  /\ pc = "done"
  /\ Indicators(features) = {}
  /\ result.red_flags = << NoRedFlags >>

\* the items whose text is neither empty nor made of whitespace only
NonBlank(items) ==
  { i \in 1..Len(items) :
      \E k \in 1..Len(items[i].text) : ~ IsSpace(items[i].text[k]) }

\* the timestamps of the posts and comments of a record
EventTimes(data) ==
  { data.posts[i].created_utc : i \in 1..Len(data.posts) }
    \cup { data.comments[i].created_utc : i \in 1..Len(data.comments) }

\* C19: the analysis of a record never ends in the error entry of a failed
\* compute_features, however sparse the record (no posts, no comments, total
\* karma 0, age 0, all events at one instant); the spike feature is 0.0 with
\* at most 5 events or a mean gap of 0, and the duplicate feature is 0.0 when
\* neither the posts nor the comments have 3 non-empty texts
C19_SparseRecordsGuarded ==
  pc = "done" =>
    /\ "error" \notin DOMAIN result
    /\ features # None
    /\ (Len(user_data.posts) + Len(user_data.comments) <= 5
          \/ Cardinality(EventTimes(user_data)) <= 1)
        => features.activity_spike_score = 0
    /\ (Cardinality(NonBlank(user_data.posts)) < 3
          /\ Cardinality(NonBlank(user_data.comments)) < 3)
        => features.duplicate_content_score = 0

\* an account created this instant, with no post, no comment and no karma,
\* has been analysed and scored
C19_Witness ==
  /\ pc = "done"
  /\ user_data.created_utc = NowDay
  /\ Len(user_data.posts) = 0
  /\ Len(user_data.comments) = 0
  /\ user_data.link_karma + user_data.comment_karma = 0
  /\ "error" \notin DOMAIN result
  /\ features.activity_spike_score = 0
  /\ features.duplicate_content_score = 0
  /\ result.bot_score = Some(bot_score)

(***************************************************************************)
(* The new duplicating account and the long-standing account               *)
(* (SpecScenario)                                                          *)
(***************************************************************************)
\* ways the total karma of an account splits into link and comment karma
KarmaSplits(total) == { << total, 0 >>, << 0, total >>, << -5, total + 5 >> }

\* accounts created 5 days ago, with no post, 50 comments whose texts are the
\* same or differ in one character, and a total karma of 1
NewDuplicators ==
  { MkUserData(u, 5, k[1], k[2], v, 0, 50, l) :
      u \in Usernames, k \in KarmaSplits(1), v \in BOOLEAN,
      l \in { "same", "even", "burst" } \X { "one", "fifteen" } \X { "same", "near" } }

\* accounts created 1095 or 1100 days ago, with 20 posts in 15 communities,
\* no two texts alike, evenly spaced or simultaneous, and a total karma of
\* 10,000
LongStanding ==
  { MkUserData(u, a, k[1], k[2], v, 20, nc, l) :
      u \in Usernames, a \in { 1095, 1100 }, k \in KarmaSplits(10000),
      v \in BOOLEAN, nc \in CommentCounts,
      l \in { "same", "even" } \X { "fifteen" } \X { "letters" } }

InitScenario ==
  /\ pc = "fetched"
  /\ user_data \in NewDuplicators \cup LongStanding
  /\ features = None
  /\ bot_score = None
  /\ breakdown = None
  /\ result = None
  /\ NoBatch
  /\ NoOpenai
  /\ NoPagination

SpecScenario == InitScenario /\ [][AnalyzeUserComprehensive]_vars

\* the texts of the model that are alike in more than 0.8 of their characters
NearTexts == { BoilerText } \cup { NearText(i) : i \in 0..2 }

\* created 5 days ago, 0 posts, 50 near-identical comments, total karma 1
IsNewDuplicator(data) ==
  /\ NowDay - data.created_utc = 5
  /\ Len(data.posts) = 0
  /\ Len(data.comments) = 50
  /\ \A i \in 1..Len(data.comments) : data.comments[i].text \in NearTexts
  /\ data.link_karma + data.comment_karma = 1

\* the wordings of the sentences of a red-flag list
FlagTexts(flags) == { flags[i].text : i \in 1..Len(flags) }

\* C17: every account created 5 days ago with no post, 50 near-identical
\* comments and a total karma of 1 scores at least 70, is classified 'Almost
\* Certainly Bot', and has the new-account and the high-duplicate-content
\* sentences among its red flags
C17_NewDuplicatorCertainBot ==
  (pc = "done" /\ IsNewDuplicator(user_data)) =>
    /\ bot_score >= 70 * Cent
    /\ result.classification = "Almost Certainly Bot"
    /\ { "Very new account", "High duplicate content" }
         \subseteq FlagTexts(result.red_flags)

\* created at least 1095 days ago, 20 posts in 15 communities, total karma
\* 10,000, no duplicate content and no activity spike
IsLongStanding(data, f) ==
  /\ NowDay - data.created_utc >= 1095
  /\ Len(data.posts) = 20
  /\ Cardinality({ data.posts[i].subreddit : i \in 1..Len(data.posts) }) = 15
  /\ data.link_karma + data.comment_karma = 10000
  /\ f.duplicate_content_score = 0
  /\ f.activity_spike_score = 0

\* C18: every account created at least 1095 days ago with 20 posts across 15
\* communities, a total karma of 10,000, no duplicate content and no activity
\* spike scores below 30 and is classified 'Likely Human'
C18_LongStandingLikelyHuman ==
  (pc = "done" /\ IsLongStanding(user_data, features)) =>
    /\ bot_score < 30 * Cent
    /\ result.classification = "Likely Human"

\* such an account, unverified, without comments and with a username of the
\* letters-and-digits pattern, has been classified 'Likely Human'
C18_Witness ==
  /\ pc = "done"
  /\ IsLongStanding(user_data, features)
  /\ ~ user_data.is_verified
  /\ Len(user_data.comments) = 0
  /\ 10 * features.username_suspicious_score = 7 * SCALE
  /\ result.classification = "Likely Human"

(***************************************************************************)
(* Accounts of three months and more with a few posts (SpecFlags)          *)
(***************************************************************************)
\* accounts created 90 or 1095 days ago, with 5 posts in one or three
\* communities, three of the titles alike or none, up to 2 comments, and a
\* total karma of 40
QuietAccounts ==
  { MkUserData(u, a, k[1], k[2], v, 5, nc, l) :
      u \in Usernames, a \in { 90, 1095 }, k \in KarmaSplits(40),
      v \in BOOLEAN, nc \in { 0, 2 },
      l \in { "same", "even" } \X { "one", "three" } \X { "three_alike", "varied" } }

InitFlags ==
  /\ pc = "fetched"
  /\ user_data \in QuietAccounts
  /\ features = None
  /\ bot_score = None
  /\ breakdown = None
  /\ result = None
  /\ NoBatch
  /\ NoOpenai
  /\ NoPagination

SpecFlags == InitFlags /\ [][AnalyzeUserComprehensive]_vars

\* C30: every result with a score of 50 or more, classified 'Likely Bot' or
\* 'Almost Certainly Bot', carries at least one red flag other than the
\* sentence 'No major red flags detected'
C30_BotVerdictHasRedFlag ==
  (pc = "done" /\ bot_score >= 50 * Cent) =>
    /\ result.classification \in { "Likely Bot", "Almost Certainly Bot" }
    /\ result.red_flags # << NoRedFlags >>

(***************************************************************************)
(* classify_bot_likelihood on every reportable score (SpecClassify)        *)
(***************************************************************************)
\* FeatureSets to go with the scores: those of a new account with three
\* identical posts, under each username
ClassifyFeatures ==
  { compute_features(MkUserData(u, 0, 0, 0, FALSE, 3, 0, << "same", "one", "same" >>),
                     NowDay) : u \in Usernames }

InitClassify ==
  /\ pc = "scored"
  /\ bot_score \in 0..(MaxScore * Cent)
  /\ user_data = None
  /\ features \in ClassifyFeatures
  /\ breakdown = None
  /\ result = None
  /\ NoBatch
  /\ NoOpenai
  /\ NoPagination

\* lines 271 and 291: the classification and the recommendation of a score
ClassifyScore ==
  /\ pc = "scored"
  /\ result' = [ classification |-> classify_bot_likelihood(bot_score).classification,
                 confidence |-> classify_bot_likelihood(bot_score).confidence,
                 risk_level |-> classify_bot_likelihood(bot_score).risk_level,
                 description |-> classify_bot_likelihood(bot_score).description,
                 recommendations |-> generate_recommendations(bot_score, features) ]
  /\ pc' = "classified"
  /\ UNCHANGED << user_data, features, bot_score, breakdown, batchVars >>
  /\ UNCHANGED << openaiVars, pagination >>

NextClassify == ClassifyScore

SpecClassify == InitClassify /\ [][NextClassify]_vars

Categories ==
  { << "Likely Human", "Low" >>, << "Possibly Suspicious", "Medium" >>,
    << "Likely Bot", "High" >>, << "Almost Certainly Bot", "Critical" >> }

\* C3: every score in [0, 100] gets exactly one of the four categories, by
\* the bins [0,30), [30,50), [50,70), [70,100]; 30, 50 and 70 fall in the
\* upper bin.
C3_ClassifierBins ==
  pc = "classified" =>
    LET c == << result.classification, result.risk_level >>
    IN  /\ c \in Categories
        /\ c = << "Likely Human", "Low" >> <=> bot_score < 3000
        /\ c = << "Possibly Suspicious", "Medium" >>
             <=> (3000 <= bot_score /\ bot_score < 5000)
        /\ c = << "Likely Bot", "High" >>
             <=> (5000 <= bot_score /\ bot_score < 7000)
        /\ c = << "Almost Certainly Bot", "Critical" >>
             <=> (7000 <= bot_score /\ bot_score <= 10000)

\* the boundary score 70 has been classified into the upper bin
C3_Witness ==
  /\ pc = "classified"
  /\ bot_score = 7000
  /\ result.classification = "Almost Certainly Bot"

\* the recommendation text of each category
RecommendationOf(classification) ==
  IF classification = "Likely Human"
  THEN "Account appears legitimate. No action needed."
  ELSE IF classification = "Possibly Suspicious"
  THEN "Monitor account activity. Consider manual review if behavior persists."
  ELSE IF classification = "Likely Bot"
  THEN "High probability of bot activity. Recommend flagging for review and possible restrictions."
  ELSE "Very high probability of bot activity. Immediate action recommended: ban or severe restrictions."

\* C16: the recommendation of a score is the text of the bin the classifier
\* puts that score in, whatever the FeatureSet passed along
C16_RecommendationOfBin ==
  pc = "classified" =>
    result.recommendations = RecommendationOf(result.classification)

\* the boundary score 50 got the category and the recommendation of [50, 70)
C16_Witness ==
  /\ pc = "classified"
  /\ bot_score = 50 * Cent
  /\ result.classification = "Likely Bot"
  /\ result.recommendations =
       "High probability of bot activity. Recommend flagging for review and possible restrictions."

(***************************************************************************)
(* compute_bot_score_100_enhanced on two FeatureSets that differ in one    *)
(* value (SpecMono)                                                        *)
(***************************************************************************)
\* the values of each feature the scorer reads
FeatureValues ==
  [ age_days |-> { 0, 5, 90, 1095 },
    activity_spike_score |-> { 0, SCALE },
    posts_per_day_score |->
      { 0, (3 * SCALE) \div 10, SCALE \div 2, (6 * SCALE) \div 10, SCALE },
    username_suspicious_score |-> { 0, (7 * SCALE) \div 10 },
    duplicate_content_score |-> { 0, SCALE \div 2, SCALE },
    low_karma_score |-> { 0, SCALE },
    post_to_karma_score |-> { 0, (3 * SCALE) \div 10, SCALE },
    subreddit_diversity_score |-> { 0, (9 * SCALE) \div 10, SCALE },
    comment_to_post_score |-> { 0, SCALE },
    verification_penalty |-> { 0, (2 * SCALE) \div 10 } ]

ScoredFields == DOMAIN FeatureValues

InitMono ==
  /\ pc = "features"
  /\ features \in [ age_days : FeatureValues.age_days,
                    activity_spike_score : FeatureValues.activity_spike_score,
                    posts_per_day_score : FeatureValues.posts_per_day_score,
                    username_suspicious_score : FeatureValues.username_suspicious_score,
                    duplicate_content_score : FeatureValues.duplicate_content_score,
                    low_karma_score : FeatureValues.low_karma_score,
                    post_to_karma_score : FeatureValues.post_to_karma_score,
                    subreddit_diversity_score : FeatureValues.subreddit_diversity_score,
                    comment_to_post_score : FeatureValues.comment_to_post_score,
                    verification_penalty : FeatureValues.verification_penalty ]
  /\ user_data = None
  /\ bot_score = None
  /\ breakdown = None
  /\ result = None
  /\ NoBatch
  /\ NoOpenai
  /\ NoPagination

\* score the FeatureSet and the one obtained by raising the value of `field`
ScoreBoth(field, value) ==
  /\ pc = "features"
  /\ value > features[field]
  /\ bot_score' = compute_bot_score_100_enhanced(features)[1]
  /\ breakdown' = compute_bot_score_100_enhanced(features)[2]
  /\ result' = [ raised |-> field,
                 features |-> [features EXCEPT ![field] = value],
                 raised_score |->
                   compute_bot_score_100_enhanced([features EXCEPT ![field] = value])[1] ]
  /\ pc' = "compared"
  /\ UNCHANGED << user_data, features, batchVars >>
  /\ UNCHANGED << openaiVars, pagination >>

NextMono == \E field \in ScoredFields : \E value \in FeatureValues[field] : ScoreBoth(field, value)

SpecMono == InitMono /\ [][NextMono]_vars

\* C10 as stated: raising any single value read by the scorer, age_days
\* included, never lowers the composite score.
C10_MonotoneInEveryValue ==
  pc = "compared" => result.raised_score >= bot_score

\* C10: raising any single value read by the scorer other than age_days never
\* lowers the composite score; raising age_days never raises it.
C10_MonotoneExceptAge ==
  pc = "compared" =>
    /\ result.raised # "age_days" => result.raised_score >= bot_score
    /\ result.raised = "age_days" => result.raised_score <= bot_score

\* a raised posting rate has raised the score
C10_Witness ==
  /\ pc = "compared"
  /\ result.raised = "posts_per_day_score"
  /\ result.raised_score > bot_score
  /\ bot_score > 0

\* ---------------------------------------------------------------------------
\* analyze_multiple_users (lines 350-416): the batch loop and its statistics

MaxBatch == 3

BatchNames == { << "a", "l", "i", "c", "e" >>, << "a", "b", "1" >> }

\* what the Reddit client raises for an account that cannot be read
FetchErrors == { "received 404 HTTP response", "received 403 HTTP response" }

\* accounts of the four categories: age, link karma, comment karma, verified,
\* posts, comments, layout
BatchProfiles ==
  { << 90, 0, 10000, FALSE, 0, 0, << "same", "one", "same" >> >>,
    << 0, 0, 0, FALSE, 0, 0, << "same", "one", "same" >> >>,
    << 0, 0, 0, FALSE, 1, 0, << "same", "one", "same" >> >>,
    << 0, 40, 0, FALSE, 3, 0, << "same", "one", "same" >> >> }

\* the ways fetch_user_data(username) can end
fetch_user_data(username) ==
  { Raise(e) : e \in FetchErrors } \cup
  { Return(MkUserData(username, p[1], p[2], p[3], p[4], p[5], p[6], p[7])) :
      p \in BatchProfiles }

\* line 368, with the error entries counted as scores of zero
valid_scores_unfiltered(rs) ==
  [ i \in 1..Len(rs) |-> IF rs[i].bot_score # None THEN rs[i].bot_score[1] ELSE 0 ]

\* line 368: the scores of the results whose bot_score is not None
valid_scores(rs) ==
  LET ok == SelectSeq(rs, LAMBDA r : r.bot_score # None)
  IN  [ i \in 1..Len(ok) |-> ok[i].bot_score[1] ]

\* round(np.mean(scores), 2), scores in hundredths
mean(scores) == RoundDiv(SumSeq(scores), Len(scores))

\* round(np.median(scores), 2)
median(scores) ==
  LET s == sorted(scores)
      n == Len(s)
  IN  IF n % 2 = 1 THEN s[(n + 1) \div 2]
      ELSE RoundDiv(s[n \div 2] + s[n \div 2 + 1], 2)

\* how many of the scores lie in [lo, hi)
CountIn(scores, lo, hi) ==
  Cardinality({ i \in 1..Len(scores) : lo <= scores[i] /\ scores[i] < hi })

\* the likely_bots counter without its upper limit
StatisticsOpenBin(names, scores) ==
  [ total_analyzed |-> Len(names),
    successful_analyses |-> Len(scores),
    failed_analyses |-> Len(names) - Len(scores),
    average_bot_score |-> mean(scores),
    median_bot_score |-> median(scores),
    min_bot_score |-> sorted(scores)[1],
    max_bot_score |-> sorted(scores)[Len(scores)],
    likely_humans |-> CountIn(scores, 0 - Sat, 30 * Cent),
    suspicious |-> CountIn(scores, 30 * Cent, 50 * Cent),
    likely_bots |-> CountIn(scores, 50 * Cent, Sat),
    almost_certain_bots |-> CountIn(scores, 70 * Cent, Sat) ]

\* lines 371-383
Statistics(names, scores) ==
  [ total_analyzed |-> Len(names),
    successful_analyses |-> Len(scores),
    failed_analyses |-> Len(names) - Len(scores),
    average_bot_score |-> mean(scores),
    median_bot_score |-> median(scores),
    min_bot_score |-> sorted(scores)[1],
    max_bot_score |-> sorted(scores)[Len(scores)],
    likely_humans |-> CountIn(scores, 0 - Sat, 30 * Cent),
    suspicious |-> CountIn(scores, 30 * Cent, 50 * Cent),
    likely_bots |-> CountIn(scores, 50 * Cent, 70 * Cent),
    almost_certain_bots |-> CountIn(scores, 70 * Cent, Sat) ]

InitBatch ==
  /\ pc = "loop"
  /\ usernames \in UNION { [1..n -> BatchNames] : n \in 0..MaxBatch }
  /\ idx = 0
  /\ results = << >>
  /\ output = None
  /\ report_file = None
  /\ user_data = << >>
  /\ features = None
  /\ bot_score = None
  /\ breakdown = None
  /\ result = None
  /\ NoOpenai
  /\ NoPagination

\* lines 358-366: one iteration of the loop; the wall clock advances by one
\* instant from an analysis to the next; user_data keeps how each fetch ended
AnalyzeNext ==
  /\ pc = "loop"
  /\ idx < Len(usernames)
  /\ \E fetched \in fetch_user_data(usernames[idx + 1]) :
       \E call \in { analyze_user_comprehensive(usernames[idx + 1], fetched,
                                                Clock(idx + 1)) } :
         IF call.raised
         THEN /\ pc' = "raised"
              /\ UNCHANGED << user_data, result, results, idx >>
         ELSE /\ user_data' = Append(user_data, fetched)
              /\ result' = call.value
              /\ results' = Append(results, call.value)
              /\ idx' = idx + 1
              /\ UNCHANGED pc
  /\ UNCHANGED << features, bot_score, breakdown, usernames, output, report_file >>
  /\ UNCHANGED << openaiVars, pagination >>

\* lines 368-416: the statistics, the report and the return
Finish ==
  /\ pc = "loop"
  /\ idx = Len(usernames)
  /\ IF valid_scores(results) # << >>
     THEN /\ output' = [ statistics |-> Statistics(usernames, valid_scores(results)),
                         results |-> results ]
          /\ \E save_to_file \in BOOLEAN :
               report_file' = IF save_to_file THEN output' ELSE report_file
     ELSE /\ output' = [ results |-> results ]
          /\ UNCHANGED report_file
  /\ pc' = "returned"
  /\ UNCHANGED << accountVars, usernames, idx, results >>
  /\ UNCHANGED << openaiVars, pagination >>

NextBatch == AnalyzeNext \/ Finish

SpecBatch == InitBatch /\ [][NextBatch]_vars

\* the positions of the results that are explicit error entries
ErrorEntries(rs) ==
  { i \in 1..Len(rs) : /\ "error" \in DOMAIN rs[i]
                       /\ rs[i].bot_score = None
                       /\ rs[i].classification = "Error" }

\* the positions of the results that are full classifications
FullEntries(rs) ==
  { i \in 1..Len(rs) : /\ "error" \notin DOMAIN rs[i]
                       /\ rs[i].bot_score # None
                       /\ << rs[i].classification, rs[i].risk_level >> \in Categories }

\* C4: the batch never aborts; the results hold one entry per username gone
\* through, in input order, each a full classification with a score or an
\* explicit error entry naming the username; the returned results cover every
\* username
C4_OneEntryPerUsername ==
  pc \in { "loop", "returned", "raised" } =>
    /\ pc # "raised"
    /\ Len(results) = idx
    /\ idx <= Len(usernames)
    /\ \A i \in 1..Len(results) : results[i].username = usernames[i]
    /\ FullEntries(results) \cup ErrorEntries(results) = 1..Len(results)
    /\ FullEntries(results) \cap ErrorEntries(results) = {}
    /\ pc = "returned" => /\ Len(results) = Len(usernames)
                          /\ output.results = results

\* a batch has returned whose first account failed and whose second was scored
C4_Witness ==
  /\ pc = "returned"
  /\ Len(usernames) >= 2
  /\ 1 \in ErrorEntries(output.results)
  /\ 2 \in FullEntries(output.results)

\* what the analysis of the record fetched for entry i gives on its own
OwnAnalysis(i) ==
  LET f == compute_features(user_data[i].value, NowDay)
      scored == compute_bot_score_100_enhanced(f)
  IN  [ bot_score |-> Some(scored[1]),
        classification |-> classify_bot_likelihood(scored[1]).classification,
        breakdown |-> scored[2],
        red_flags |-> generate_red_flags(f, scored[1]) ]

\* the fields of a result that C12 is about
Verdict(r) ==
  [ bot_score |-> r.bot_score, classification |-> r.classification,
    breakdown |-> r.breakdown, red_flags |-> r.red_flags ]

ScoresOf(rs) == [ i \in FullEntries(rs) |-> rs[i].bot_score[1] ]

\* C5: the statistics are computed over the scored entries only:
\* successful_analyses counts them, failed_analyses counts the error entries,
\* the two add up to the number of usernames, and average, median, minimum and
\* maximum are those of the scored entries' scores
C5_StatisticsOverScored ==
  (pc = "returned" /\ "statistics" \in DOMAIN output) =>
    LET st == output.statistics
        ok == FullEntries(output.results)
        sc == ScoresOf(output.results)
        total == SumSeq([ i \in 1..Len(output.results) |->
                            IF i \in ok THEN sc[i] ELSE 0 ])
        n == Cardinality(ok)
    IN  /\ st.total_analyzed = Len(usernames)
        /\ st.successful_analyses = n
        /\ st.failed_analyses = Cardinality(ErrorEntries(output.results))
        /\ st.successful_analyses + st.failed_analyses = Len(usernames)
        /\ n > 0
        /\ \E i \in ok : st.min_bot_score = sc[i]
        /\ \E i \in ok : st.max_bot_score = sc[i]
        /\ \A i \in ok : st.min_bot_score <= sc[i] /\ sc[i] <= st.max_bot_score
        /\ 2 * (n * st.average_bot_score - total) <= n
        /\ 2 * (total - n * st.average_bot_score) <= n
        /\ 2 * Cardinality({ i \in ok : sc[i] <= st.median_bot_score }) >= n
        /\ 2 * Cardinality({ i \in ok : sc[i] >= st.median_bot_score }) >= n
        /\ st.likely_humans + st.suspicious + st.likely_bots
             + st.almost_certain_bots = n

\* a batch of three with one unreadable account: two successes, one failure,
\* exactly one error entry
C5_Witness ==
  /\ pc = "returned"
  /\ Len(usernames) = 3
  /\ "statistics" \in DOMAIN output
  /\ output.statistics.successful_analyses = 2
  /\ output.statistics.failed_analyses = 1
  /\ Cardinality(ErrorEntries(output.results)) = 1
  /\ output.statistics.min_bot_score < output.statistics.max_bot_score

\* C6: the value returned by a batch always holds a statistics block
\* alongside the results
C6_OutputHasStatistics ==
  pc = "returned" => { "statistics", "results" } \subseteq DOMAIN output

\* the successful results of the batch that carry the classification c
ClassifiedAs(c) ==
  { i \in 1..Len(results) : /\ results[i].bot_score # None
                            /\ results[i].classification = c }

\* C29: likely_humans + suspicious + likely_bots + almost_certain_bots =
\* successful_analyses, and each counter is the number of successful results
\* that classify_bot_likelihood put in its category
C29_CountersMatchClassifications ==
  (pc = "returned" /\ "statistics" \in DOMAIN output) =>
    LET st == output.statistics
    IN  /\ st.likely_humans + st.suspicious + st.likely_bots
             + st.almost_certain_bots = st.successful_analyses
        /\ st.likely_humans = Cardinality(ClassifiedAs("Likely Human"))
        /\ st.suspicious = Cardinality(ClassifiedAs("Possibly Suspicious"))
        /\ st.likely_bots = Cardinality(ClassifiedAs("Likely Bot"))
        /\ st.almost_certain_bots = Cardinality(ClassifiedAs("Almost Certainly Bot"))

\* a batch of three with one failed account has returned, its two successful
\* results in different categories, one of them a bot category
C29_Witness ==
  /\ pc = "returned"
  /\ "statistics" \in DOMAIN output
  /\ output.statistics.failed_analyses = 1
  /\ output.statistics.successful_analyses = 2
  /\ output.statistics.likely_bots + output.statistics.almost_certain_bots = 1
  /\ output.statistics.likely_humans + output.statistics.suspicious = 1

\* analyze_multiple_users is one sequential call: its loop goes on to the next
\* username and then to the statistics as long as no exception leaves it
SpecBatchFair == SpecBatch /\ WF_vars(NextBatch)

\* every requested account has its entry, a classification or an error
AllSettled ==
  /\ idx = Len(usernames)
  /\ Len(results) = Len(usernames)
  /\ FullEntries(results) \cup ErrorEntries(results) = 1..Len(usernames)

\* the statistics of the batch have been computed
StatisticsProduced == output # None /\ "statistics" \in DOMAIN output

\* C24: the statistics are produced only after every requested account has
\* its classification or its error entry, and once all accounts are settled
\* the statistics are eventually produced
C24_StatisticsJoinAllAnalyses ==
  /\ [](StatisticsProduced => AllSettled)
  /\ (AllSettled ~> StatisticsProduced)

\* ---------------------------------------------------------------------------
\* botDetector.py (bot_detection): the earlier detector and its entry points

\* floor(exp(-k / 5) * SCALE) for the subreddit counts of the records
ExpTable5 ==
  0 :> 1000000 @@ 1 :> 818730 @@ 2 :> 670320 @@ 3 :> 548811 @@ 4 :> 449328
  @@ 5 :> 367879 @@ 6 :> 301194 @@ 7 :> 246596 @@ 8 :> 201896 @@ 9 :> 165298
  @@ 10 :> 135335 @@ 11 :> 110803 @@ 12 :> 90717 @@ 13 :> 74273

\* what fetch_user_data_safe(username) can return: None for an account that
\* is not found, suspended or private, the user_data dictionary otherwise
fetch_user_data_safe ==
  { None } \cup
  { [ k \in DOMAIN r \ { "is_verified" } |-> r[k] ] : r \in UserRecords }

\* lines 112-119: the spike test, made whatever the mean gap
legacy_activity_spike_score(posts, comments) ==
  LET times == sorted([i \in 1..Len(posts \o comments) |-> (posts \o comments)[i].created_utc])
      deltas == diff(times)
      n == Len(deltas)
      total == SumSeq(deltas)
  IN  IF Len(times) > 5
         /\ \E i \in 1..(n - 1) :
              /\ n * deltas[i] > 5 * total
              /\ 5 * n * deltas[i + 1] < total
      THEN SCALE ELSE 0

\* compute_features(data) of botDetector.py, the clock read as `clock`
legacy_compute_features(data, clock) ==
  IF data = None
  THEN Raise("TypeError: 'NoneType' object is not subscriptable")
  ELSE
    LET age_days == clock - data.created_utc
        posts == data.posts
        comments == data.comments
        c_to_p == DivEps(Len(comments), Len(posts))
        subreddits == { posts[i].subreddit : i \in 1..Len(posts) }
                        \cup { comments[i].subreddit : i \in 1..Len(comments) }
        subreddit_count == Cardinality(subreddits)
        total_posts == Max(Len(posts), 1)
        total_karma == data.link_karma + data.comment_karma
        duplicate_content_ratio ==
          Max(get_duplicate_content_ratio(comments), get_duplicate_content_ratio(posts))
        \* posts_per_day / 20
        posts_per_day_x20 ==
          ((Len(posts) + Len(comments)) * SCALE) \div (20 * Min(age_days, 30))
    IN  IF Min(age_days, 30) = 0
        THEN Raise("ZeroDivisionError: float division by zero")
        ELSE Return(
          [ age_score |-> ExpNeg180(age_days),
            age_days |-> age_days,
            comment_to_post_score |->
              IF c_to_p < SCALE THEN SCALE - Min(SCALE, c_to_p) ELSE 0,
            subreddit_diversity_score |->
              SCALE - Min((subreddit_count * SCALE) \div 10, SCALE),
            subreddit_count |-> subreddit_count,
            activity_spike_score |-> legacy_activity_spike_score(posts, comments),
            post_to_karma_score |-> PostToKarmaScore(total_posts, total_karma),
            duplicate_content_score |-> Min(5 * duplicate_content_ratio, SCALE),
            posts_per_day_score |-> Min(posts_per_day_x20, SCALE) ])

\* 0.25 * exp(-age_days / 90)
age_penalty(age_days) == ExpNeg90(age_days) \div 4

\* 0.3 * exp(-subreddit_count / 5)
subreddit_diversity_penalty(subreddit_count) ==
  (3 * ExpTable5[subreddit_count]) \div 10

\* compute_bot_score(features), a score in [0, 1] in fixed point
compute_bot_score(f) ==
  Min(SCALE,
      age_penalty(f.age_days)
      + subreddit_diversity_penalty(f.subreddit_count)
      + (IF f.activity_spike_score > 0 THEN (15 * SCALE) \div 100 ELSE 0)
      + (IF 100 * f.post_to_karma_score > 5 * SCALE
         THEN (15 * Min(2 * f.post_to_karma_score, SCALE)) \div 100 ELSE 0)
      + (IF 10 * f.posts_per_day_score > 5 * SCALE
         THEN (15 * f.posts_per_day_score) \div 100 ELSE 0)
      + (15 * f.duplicate_content_score) \div 100)

\* analyze_user(username), `data` being what fetch_user_data_safe returned
analyze_user(username, data) ==
  LET computed == legacy_compute_features(data, NowDay)
  IN  IF computed.raised THEN computed
      ELSE Return([ username |-> username,
                    bot_score |-> compute_bot_score(computed.value),
                    features |-> computed.value ])

\* generate_bot_score(username), `data` being what fetch_user_data_safe returned
generate_bot_score(username, data) ==
  IF data = None THEN Return(None)
  ELSE LET computed == legacy_compute_features(data, NowDay)
       IN  IF computed.raised THEN computed
           ELSE Return(compute_bot_score(computed.value))

InitLegacy ==
  /\ pc = "fetched"
  /\ usernames \in { << u >> : u \in Usernames }
  /\ user_data \in fetch_user_data_safe
  /\ user_data # None => user_data.username = usernames[1]
  /\ features = None
  /\ bot_score = None
  /\ breakdown = None
  /\ result = None
  /\ idx = None
  /\ results = None
  /\ output = None
  /\ report_file = None
  /\ NoOpenai
  /\ NoPagination

\* the rest of analyze_user once the fetch has returned
AnalyzeUser ==
  /\ pc = "fetched"
  /\ result' = [ entry_point |-> "analyze_user",
                 call |-> analyze_user(usernames[1], user_data) ]
  /\ pc' = IF result'.call.raised THEN "raised" ELSE "returned"
  /\ UNCHANGED << user_data, features, bot_score, breakdown, batchVars >>
  /\ UNCHANGED << openaiVars, pagination >>

\* the rest of generate_bot_score once the fetch has returned
GenerateBotScore ==
  /\ pc = "fetched"
  /\ result' = [ entry_point |-> "generate_bot_score",
                 call |-> generate_bot_score(usernames[1], user_data) ]
  /\ pc' = IF result'.call.raised THEN "raised" ELSE "returned"
  /\ UNCHANGED << user_data, features, bot_score, breakdown, batchVars >>
  /\ UNCHANGED << openaiVars, pagination >>

NextLegacy == AnalyzeUser \/ GenerateBotScore

SpecLegacy == InitLegacy /\ [][NextLegacy]_vars

\* C7: for an account that cannot be resolved (the fetch returned None),
\* each entry point returns to its caller without raising, and what it
\* returns is the no-data value
C7_UnresolvedReturnsNoData ==
  (pc \in { "returned", "raised" } /\ user_data = None) =>
    /\ pc = "returned"
    /\ ~ result.call.raised
    /\ result.call.value = None

\* the *_score values of a FeatureSet of botDetector.compute_features
LegacyScoreFields(f) ==
  << f.age_score, f.comment_to_post_score, f.subreddit_diversity_score,
     f.activity_spike_score, f.post_to_karma_score, f.duplicate_content_score,
     f.posts_per_day_score >>

\* C26: for every record with age >= 0, age 0 and total karma <= 0 included,
\* compute_features of botDetector.py completes without error and each
\* *_score value it returns lies in [0, 1]
C26_LegacyFeatureScoresInUnit ==
  (pc \in { "returned", "raised" } /\ user_data # None
     /\ result.entry_point = "analyze_user") =>
    /\ ~ result.call.raised
    /\ \A i \in 1..Len(LegacyScoreFields(result.call.value.features)) :
         /\ LegacyScoreFields(result.call.value.features)[i] >= 0
         /\ LegacyScoreFields(result.call.value.features)[i] <= SCALE

\* ---------------------------------------------------------------------------
\* analyze_user_comprehensive run twice on one activity record

RerunRecords ==
  { MkUserData(u, p[1], p[2], p[3], p[4], p[5], p[6], p[7]) :
      u \in Usernames, p \in BatchProfiles }

InitRerun ==
  /\ pc = "fetched"
  /\ user_data \in RerunRecords
  /\ results = << >>
  /\ features = None
  /\ bot_score = None
  /\ breakdown = None
  /\ result = None
  /\ usernames = None
  /\ idx = None
  /\ output = None
  /\ report_file = None
  /\ NoOpenai
  /\ NoPagination

\* one more call of analyze_user_comprehensive, fetch_user_data returning the
\* same user_data and time.time() reading the same value
Rerun ==
  /\ pc \in { "fetched", "once" }
  /\ \E instant \in Instants :
       result' = analyze_user_comprehensive(user_data.username, Return(user_data),
                                            Clock(instant)).value
  /\ results' = Append(results, result')
  /\ pc' = IF pc = "fetched" THEN "once" ELSE "twice"
  /\ UNCHANGED << user_data, features, bot_score, breakdown, usernames, idx,
                  output, report_file >>
  /\ UNCHANGED << openaiVars, pagination >>

NextRerun == Rerun

SpecRerun == InitRerun /\ [][NextRerun]_vars

\* C11: two runs of the engine on an identical activity record, with the same
\* reading of time.time(), return results that are identical in every field
C11_RerunIdentical ==
  pc = "twice" => results[1] = results[2]

\* ---------------------------------------------------------------------------
\* get_duplicate_content_ratio on lists of texts

MaxTexts == 4

\* an empty text, a blank one, one of punctuation only, two texts that
\* SequenceMatcher finds alike in one order only, and one whose similarity to
\* each of these two is 0.8 exactly
DupTexts ==
  { << >>, << " " >>, << "!" >>,
    << "a", "a", "a", "b", "a", "a" >>, << "a", "b", "a", "a", "b", "a" >>,
    << "a", "a", "b", "a" >> }

\* the list with the items at positions i and j exchanged
Swap(items, i, j) ==
  [ k \in 1..Len(items) |->
      IF k = i THEN items[j] ELSE IF k = j THEN items[i] ELSE items[k] ]

InitDup ==
  /\ pc = "items"
  /\ user_data \in UNION { [1..n -> { [ text |-> t ] : t \in DupTexts }] :
                             n \in 0..MaxTexts }
  /\ features = None
  /\ bot_score = None
  /\ breakdown = None
  /\ result = None
  /\ NoBatch
  /\ NoOpenai
  /\ NoPagination

\* get_duplicate_content_ratio(items, content_key)
GetDuplicateContentRatio ==
  /\ pc = "items"
  /\ result' = [ ratio |-> get_duplicate_content_ratio(user_data) ]
  /\ pc' = "ratio"
  /\ UNCHANGED << user_data, features, bot_score, breakdown, batchVars >>
  /\ UNCHANGED << openaiVars, pagination >>

\* the same call on the list with two of its items exchanged
Reordered ==
  /\ pc = "ratio"
  /\ \E i, j \in 1..Len(user_data) :
       /\ i < j
       /\ result' = [ ratio |-> result.ratio, exchanged |-> << i, j >>,
                      reordered |->
                        get_duplicate_content_ratio(Swap(user_data, i, j)) ]
  /\ pc' = "reordered"
  /\ UNCHANGED << user_data, features, bot_score, breakdown, batchVars >>
  /\ UNCHANGED << openaiVars, pagination >>

NextDup == GetDuplicateContentRatio \/ Reordered

SpecDup == InitDup /\ [][NextDup]_vars

\* C13: when fewer than 3 of the texts are non-empty (neither empty nor
\* whitespace only), the ratio is 0.0 whatever the texts are
C13_FewTextsGiveZero ==
  pc = "ratio" =>
    (Cardinality(NonBlank(user_data)) < 3 => result.ratio = 0)

\* two equal non-empty texts among four items gave the ratio 0.0
C13_Witness ==
  /\ pc = "ratio"
  /\ Len(user_data) = 4
  /\ Cardinality(NonBlank(user_data)) = 2
  /\ \A i, j \in NonBlank(user_data) : user_data[i] = user_data[j]
  /\ result.ratio = 0

\* C14: the ratio of a list of texts is the ratio of the list with two of
\* its items exchanged (hence of every permutation of it)
C14_OrderInvariant ==
  pc = "reordered" => result.reordered = result.ratio

\* C22: with n >= 3 retained texts every unordered pair is compared once
\* (n * (n - 1) / 2 pairs), a pair counts as duplicate exactly when its
\* similarity 2M / T is strictly greater than 0.8, and the ratio returned is
\* duplicate pairs / pairs, between 0 and 1
C22_RatioOfDuplicatePairs ==
  (pc = "ratio" /\ Len(RetainedTexts(user_data)) >= 3) =>
    LET texts == RetainedTexts(user_data)
        n == Len(texts)
        pairs == { p \in (1..n) \X (1..n) : p[1] < p[2] }
        M(p) == matches(texts[p[1]], texts[p[2]], 1, Len(texts[p[1]]),
                        1, Len(texts[p[2]]))
        T(p) == Len(texts[p[1]]) + Len(texts[p[2]])
        duplicates == { p \in pairs : T(p) = 0 \/ 5 * M(p) > 2 * T(p) }
    IN  /\ 2 * Cardinality(pairs) = n * (n - 1)
        /\ result.ratio = (Cardinality(duplicates) * SCALE) \div Cardinality(pairs)
        /\ result.ratio \in 0..SCALE

\* three retained texts, two of them equal and the third at similarity 0.8
\* exactly from both: one duplicate pair out of three
C22_Witness ==
  /\ pc = "ratio"
  /\ Len(user_data) = 3
  /\ user_data[1].text = << "a", "a", "b", "a" >>
  /\ user_data[2].text = << "a", "a", "a", "b", "a", "a" >>
  /\ user_data[3].text = user_data[2].text
  /\ result.ratio = SCALE \div 3

\* the items whose text is not empty once normalized
NormalizedNonEmpty(items) ==
  SelectSeq(items, LAMBDA it : clean_text(it.text) # << >>)

\* C21: a text whose normalized form is empty (punctuation only, a URL only)
\* counts neither toward the fewer-than-3 test nor in a compared pair: the
\* ratio of a list is the ratio of the list without such texts
C21_NormalizedEmptyDiscarded ==
  pc = "ratio" =>
    result.ratio = get_duplicate_content_ratio(NormalizedNonEmpty(user_data))

(***************************************************************************)
(* The activity spike test on the timestamps of an account (SpecSpike)     *)
(***************************************************************************)
\* the largest number of events of an account
MaxEvents == 7

\* the created_utc values of the events: two nearby instants and the whole
\* number 2^53 - 9 = (2^29 - 1) * 2^24 + (2^24 - 9)
SpikeTimes == { Wide(0), Wide(100), << 2^29 - 1, 2^24 - 9 >> }

\* accounts of up to MaxEvents events, in any order, the first of them a post
\* or all of them comments
InitSpike ==
  /\ pc = "events"
  /\ user_data \in
       UNION { { [ posts |-> SubSeq(events, 1, p),
                   comments |-> SubSeq(events, p + 1, Len(events)) ] :
                   p \in 0..Min(1, Len(events)) } :
               events \in UNION { [1..n -> { [ created_utc |-> t ] : t \in SpikeTimes }] :
                                    n \in 0..MaxEvents } }
  /\ features = None
  /\ bot_score = None
  /\ breakdown = None
  /\ result = None
  /\ NoBatch
  /\ NoOpenai
  /\ NoPagination

\* lines 110-118 of compute_features
ComputeSpike ==
  /\ pc = "events"
  /\ \E events \in { user_data.posts \o user_data.comments } :
       result' = [ activity_spike_score |->
                     activity_spike_score([i \in 1..Len(events) |->
                                             events[i].created_utc]) ]
  /\ pc' = "spike"
  /\ UNCHANGED << user_data, features, bot_score, breakdown >>
  /\ UNCHANGED batchVars
  /\ UNCHANGED << openaiVars, pagination >>

SpecSpike == InitSpike /\ [][ComputeSpike]_vars

\* the events of the account and their number
SpikeEvents == user_data.posts \o user_data.comments

\* the k-th smallest timestamp of the account: fewer than k timestamps lie
\* below it and at least k do not lie above it
KthTime(k) ==
  CHOOSE v \in { SpikeEvents[i].created_utc : i \in 1..Len(SpikeEvents) } :
    /\ Cardinality({ i \in 1..Len(SpikeEvents) :
                       WideLess(SpikeEvents[i].created_utc, v) }) < k
    /\ Cardinality({ i \in 1..Len(SpikeEvents) :
                       ~ WideLess(v, SpikeEvents[i].created_utc) }) >= k

\* the gaps of the account, the k-th between its k-th and (k+1)-th timestamps
SpikeGaps ==
  CHOOSE gaps \in
    { [k \in 1..(Len(ordered) - 1) |-> WideSub(ordered[k + 1], ordered[k])] :
        ordered \in { [k \in 1..Len(SpikeEvents) |-> KthTime(k)] } } : TRUE

\* the mean gap as computed: the sum of the gaps over their number, rounded
\* to a float64
MeanGap(gaps) == FloatDiv(WideSum(gaps), 0, Len(gaps))

\* some gap above 5 times the mean gap is directly followed by a gap below
\* one fifth of the mean gap, both as computed in float64
SpikePattern ==
  \E gaps \in { SpikeGaps } :
    \E above \in { FloatTimes5(MeanGap(gaps)) } :
      \E below \in { FloatDiv(MeanGap(gaps)[1], MeanGap(gaps)[2], 5) } :
        \E k \in 1..(Len(gaps) - 1) :
          /\ Above(gaps[k], above)
          /\ Below(gaps[k + 1], below)

C28_SixEventsNeverSpike ==
  (pc = "spike" /\ Len(SpikeEvents) = 6) => result.activity_spike_score = 0

(***************************************************************************)
(* clean_text applied to its own result (SpecClean)                        *)
(***************************************************************************)
\* the longest text
MaxClean == 5

\* the characters of the texts: letters of both cases, punctuation, a space
CleanChars == { "w", "W", "x", "!", " " }

InitClean ==
  /\ pc = "text"
  /\ user_data \in UNION { [1..n -> CleanChars] : n \in 0..MaxClean }
  /\ features = None
  /\ bot_score = None
  /\ breakdown = None
  /\ result = None
  /\ NoBatch
  /\ NoOpenai
  /\ NoPagination

\* clean_text(text), then clean_text of what it returned
CleanTwice ==
  /\ pc = "text"
  /\ \E once \in { clean_text(user_data) } :
       result' = [ once |-> once, twice |-> clean_text(once) ]
  /\ pc' = "cleaned"
  /\ UNCHANGED << user_data, features, bot_score, breakdown >>
  /\ UNCHANGED batchVars
  /\ UNCHANGED << openaiVars, pagination >>

SpecClean == InitClean /\ [][CleanTwice]_vars

\* C27: clean_text is idempotent: normalizing an already normalized text
\* changes nothing
C27_CleanTextIdempotent ==
  pc = "cleaned" => result.twice = result.once

(***************************************************************************)
(* fetch_subreddit_posts of redditCaller.py (SpecPaging)                   *)
(***************************************************************************)
\* the largest number of posts of the subreddit
MaxListing == 3

\* limit=100 of fetch_posts, also the batch size of fetch_subreddit_posts
PageLimit == 100

PostIds == { "p1", "p2", "p3" }

\* submission.name, the fullname of a post
Fullname(id) == << "t3", id >>

\* the /new listings of the subreddit: distinct posts, newest first
Listings ==
  { l \in UNION { [1..n -> PostIds] : n \in 0..MaxListing } :
      \A i, j \in 1..Len(l) : i # j => l[i] # l[j] }

\* the values of number_of_posts
RequestedCounts == { 0, 1, 100, 101, 200, 201 }

\* subreddit.new(limit=limit, params={"after": cursor}): up to limit posts
\* of the listing, those below the post named by the cursor, from the newest
\* when the cursor is None
new(listing, limit, cursor) ==
  LET start == IF cursor = None THEN 0
               ELSE IF \E i \in 1..Len(listing) : Fullname(listing[i]) = cursor
                    THEN CHOOSE i \in 1..Len(listing) : Fullname(listing[i]) = cursor
                    ELSE Len(listing)
  IN  SubSeq(listing, start + 1, Min(Len(listing), start + limit))

\* fetch_posts(subreddit, limit, after): the cursor it sends is None whatever
\* `after` is; with no submission the name `submission` of the return
\* statement is unbound
fetch_posts(subreddit, limit, after) ==
  LET sent == None
      page == new(subreddit, limit, sent)
  IN  IF page = << >>
      THEN [ sent |-> sent, call |-> Raise("UnboundLocalError") ]
      ELSE [ sent |-> sent,
             call |-> Return(<< page, Fullname(page[Len(page)]) >>) ]

InitPaging ==
  /\ pc = "fetching"
  /\ pagination \in
       { [ subreddit |-> l,
           number_of_posts |-> k,
           batches |-> (k + 99) \div 100,
           posts |-> << >>,
           after |-> None,
           i |-> 0,
           requests |-> << >>,
           cursors |-> << >> ] : l \in Listings, k \in RequestedCounts }
  /\ user_data = None
  /\ features = None
  /\ bot_score = None
  /\ breakdown = None
  /\ result = None
  /\ NoBatch
  /\ NoOpenai

\* one iteration of the loop of lines 134-138; requests and cursors keep the
\* cursor each call sent and the cursor it returned
FetchBatch ==
  /\ pc = "fetching"
  /\ pagination.i < pagination.batches
  /\ \E got \in { fetch_posts(pagination.subreddit, PageLimit, pagination.after) } :
       IF got.call.raised
       THEN /\ pagination' = [pagination EXCEPT !.requests = Append(@, got.sent)]
            /\ pc' = "raised"
       ELSE /\ pagination' =
                 [pagination EXCEPT
                    !.posts = @ \o got.call.value[1],
                    !.after = got.call.value[2],
                    !.i = @ + 1,
                    !.requests = Append(@, got.sent),
                    !.cursors = Append(@, got.call.value[2])]
            /\ pc' = IF got.call.value[2] = None THEN "returned" ELSE "fetching"
  /\ UNCHANGED << accountVars, batchVars, openaiVars >>

\* lines 140-142: the loop has run its batches
ReturnPosts ==
  /\ pc = "fetching"
  /\ pagination.i = pagination.batches
  /\ pc' = "returned"
  /\ UNCHANGED << accountVars, batchVars, openaiVars, pagination >>

NextPaging == FetchBatch \/ ReturnPosts

SpecPaging == InitPaging /\ [][NextPaging]_vars

\* C25: each batch after the first requests the page that follows the cursor
\* returned by the batch before it, so that no post is fetched twice, and
\* the loop stops when no cursor is returned
C25_BatchesFollowTheCursor ==
  pagination # None =>
    /\ \A k \in 2..Len(pagination.requests) :
         pagination.requests[k] = pagination.cursors[k - 1]
    /\ \A m, n \in 1..Len(pagination.posts) :
         m # n => pagination.posts[m] # pagination.posts[n]
    /\ (pagination.cursors # << >>
          /\ pagination.cursors[Len(pagination.cursors)] = None) => pc = "returned"

(***************************************************************************)
(* create_openai_completion under its semaphore (SpecSemaphore)            *)
(***************************************************************************)
\* _openai_semaphore = asyncio.Semaphore(20)
SemaphoreLimit == 20

\* the number of calls of create_openai_completion made
NumCalls == 22

\* The calls differ in their arguments only, which the semaphore never sees:
\* the state keeps how many calls are at each position.
\*   idle       not yet made
\*   waiting    suspended in acquire(), its future pending
\*   woken      its future set by a release, the coroutine not yet resumed
\*   in_flight  inside the async with block, awaiting the response
\*   ended      left the function: response, exception or cancellation
Move(c, from, to) == [ c EXCEPT ![from] = @ - 1, ![to] = @ + 1 ]

\* a semaphore that never blocks
locked_never(value, waiters) == FALSE

\* Semaphore.locked(): the counter is 0 or a future of a waiter is not
\* cancelled (a woken waiter stays in the queue until it resumes)
locked(value, waiters) == value = 0 \/ waiters > 0

\* Semaphore._wake_up_next(): the first waiter whose future is pending takes
\* one unit of the counter and is woken
wake_up_next(value, c) ==
  IF c.waiting > 0
  THEN << value - 1, Move(c, "waiting", "woken") >>
  ELSE << value, c >>

\* Semaphore.release(): the counter goes up by one, then the next waiter is
\* woken
release(value, c) == wake_up_next(value + 1, c)

InitSemaphore ==
  /\ pc = "serving"
  /\ openai_semaphore = SemaphoreLimit
  /\ calls = [ idle |-> NumCalls, waiting |-> 0, woken |-> 0, in_flight |-> 0,
               ended |-> 0 ]
  /\ user_data = None
  /\ features = None
  /\ bot_score = None
  /\ breakdown = None
  /\ result = None
  /\ NoBatch
  /\ NoPagination

\* line 66, entering `async with _openai_semaphore`: acquire() takes a unit at
\* once and the call goes on to its request (lines 67-92 do not suspend), or
\* the call is suspended on a future
CreateOpenaiCompletion ==
  /\ calls.idle > 0
  /\ IF locked(openai_semaphore, calls.waiting + calls.woken)
     THEN /\ calls' = Move(calls, "idle", "waiting")
          /\ UNCHANGED openai_semaphore
     ELSE /\ calls' = Move(calls, "idle", "in_flight")
          /\ openai_semaphore' = openai_semaphore - 1
  /\ UNCHANGED << pc, accountVars, batchVars, pagination >>

\* a woken call resumes in acquire(): it leaves the queue, wakes the next
\* waiter if the counter is positive, and goes on to its request
Resume ==
  /\ calls.woken > 0
  /\ LET c == Move(calls, "woken", "in_flight")
         after == IF openai_semaphore > 0
                  THEN wake_up_next(openai_semaphore, c)
                  ELSE << openai_semaphore, c >>
     IN  /\ openai_semaphore' = after[1]
         /\ calls' = after[2]
  /\ UNCHANGED << pc, accountVars, batchVars, pagination >>

\* the task of a waiting call is cancelled: its future is cancelled and
\* acquire() raises CancelledError without touching the counter
CancelWaiting ==
  /\ calls.waiting > 0
  /\ calls' = Move(calls, "waiting", "ended")
  /\ UNCHANGED << pc, openai_semaphore, accountVars, batchVars, pagination >>

\* the task of a woken call is cancelled before it resumes: acquire() gives
\* the unit back, wakes the next waiter and raises CancelledError
CancelWoken ==
  /\ calls.woken > 0
  /\ LET after == release(openai_semaphore, Move(calls, "woken", "ended"))
     IN  /\ openai_semaphore' = after[1]
         /\ calls' = after[2]
  /\ UNCHANGED << pc, accountVars, batchVars, pagination >>

\* lines 92-94: the awaited request ends, by a response, an exception or a
\* cancellation, and leaving the async with block releases the semaphore
Complete ==
  /\ calls.in_flight > 0
  /\ LET after == release(openai_semaphore, Move(calls, "in_flight", "ended"))
     IN  /\ openai_semaphore' = after[1]
         /\ calls' = after[2]
  /\ UNCHANGED << pc, accountVars, batchVars, pagination >>

NextSemaphore ==
  \/ CreateOpenaiCompletion
  \/ Resume
  \/ CancelWaiting
  \/ CancelWoken
  \/ Complete

SpecSemaphore == InitSemaphore /\ [][NextSemaphore]_vars

\* C20: at every moment at most 20 calls are inside the async with block,
\* that is, at most 20 requests are in flight; the units handed out (to the
\* calls in flight and to the woken ones) and the counter add up to 20
C20_AtMostTwentyInFlight ==
  /\ calls.in_flight <= SemaphoreLimit
  /\ openai_semaphore >= 0
  /\ calls.in_flight + calls.woken + openai_semaphore = SemaphoreLimit

\* 20 requests are in flight and further calls wait for a unit
C20_Witness ==
  /\ calls.in_flight = SemaphoreLimit
  /\ openai_semaphore = 0
  /\ calls.waiting >= 1

====
